---- MODULE Spec2Model ----
(***************************************************************************)
(* EtherNet/IP driver (drvEtherIP.c, ether_ip.c): the per-PLC scan task,   *)
(* its scan lists and tags, the device-side consumer of a tag, and the     *)
(* drvEtherIP_restart entry point.                                         *)
(*                                                                         *)
(* One PLC with two scan lists is modelled.  The scan task is stepped one  *)
(* loop iteration at a time (one tag per step in each of the three phases  *)
(* of process_ScanList), so that a consumer can act between any two        *)
(* TagInfo.data_lock sections of the task.                                 *)
(*                                                                         *)
(* The registry, scan lists, tags and callbacks as the public interface    *)
(* builds them are modelled with two callers (SpecRegistry, SpecTags,      *)
(* SpecCallbacks), and the semaphore calls and guarded accesses of every   *)
(* function as programs run by four tasks (SpecLocks).                     *)
(***************************************************************************)
EXTENDS Integers, Sequences, FiniteSets, TLC

\* ------------------------------------------------------------ bounds
MaxTick == 2            \* number of steps of the tick counter explored
MaxErrors == 1          \* cap of plc_errors / list_errors
MaxSlow == 1            \* cap of slow_scans
MaxCalls == 4           \* calls of the public interface explored
MaxLeaked == 1          \* returns with plc->lock taken that are explored

\* ------------------------------------------------------------ program constants
TransferBufferLimit == 500      \* c->transfer_buffer_limit
MinTimeoutTicks == 100          \* lower clamp of timeout_ticks
FallbackDelay == 10             \* taskDelay(10) for a degenerate scan list
\* A ULONG difference that wrapped below 0 is a delay of almost 2^32 ticks; the
\* wake-up tick it leads to is beyond every tick explored and is written Never.
Never == 1000000000

\* ------------------------------------------------------------ configuration
\* Scan lists of the PLC, in DLL order; each list is its tags in DLL order.
ScanListTags == << <<1, 2, 3>>, <<4>> >>
\* period_ticks of each list (period * sysClkRateGet()).
PeriodTicks == <<1, 2>>
\* What a probe (EIP_read_tag) of each tag reports when it succeeds:
\* CIP_ReadData request size and the size of the response.
ProbeReqSize == <<12, 12, 12, 10>>
ProbeRespSize == <<30, 206, 286, 10>>
\* Tags the controller does not know: their probe fails.  A probe of any
\* other tag succeeds whenever EIP_startup did.
UnknownTags == {1}
\* Tags an output record is bound to: the tags a consumer writes.
OutputTags == {3}
\* Callbacks registered on each tag, in DLL order.
TagCallbacks == << <<"cbA">>, <<"cbB">>, <<"cbC", "cbD">>, <<"cbE">> >>
\* sysClkRateGet() * millisec_timeout / 1000, before the clamp.
RawTimeoutTicks == {60}

Lists == 1..Len(ScanListTags)
Tags == 1..Len(ProbeReqSize)
NoValue == 0                    \* buffer never written
PLCValues == {1}                \* payloads a read response can carry
ConsumerValues == {2}           \* values a consumer puts into the buffer
Values == {NoValue} \cup PLCValues \cup ConsumerValues
NoTag == 0
Unset == 0 - 1                  \* a C local that was never assigned

\* Callers of the public interface and what they pass.
Callers == {1, 2}               \* tasks that call the public interface
Worker == 3                     \* the scan task, as the holder of a semaphore
Device == 4                     \* a task of device support
NoCaller == 0
PLCNames == {"plc1", "plc2"}
Addresses == {<<"10.0.0.1", 0>>, <<"10.0.0.2", 1>>}     \* (ip_addr, slot)
NoAddr == ""                    \* plc->ip_addr = 0
TagNames == {"x", "y"}
Periods == {1, 2}               \* seconds
ElementCounts == {1, 2}
CallbackPairs == {"cb1", "cb2"} \* (callback, arg)
FreeSem == [owner |-> NoCaller, count |-> 0]

VARIABLES
    now,                \* tickGet()
    clock_steps,        \* steps the tick counter has made
    sock,               \* plc->connection.sock # 0
    transfer_buffer_limit,      \* plc->connection.transfer_buffer_limit
    scan_task,          \* plc->scan_task_id names a live task
    plc_lock,           \* plc->lock is held by the scan task
    timeout_ticks,      \* PLC_scan_task local, fixed at task start
    plc_errors, slow_scans,
    scheduled_ticktime, list_errors, enabled,      \* per ScanList
    cip_r_request_size, cip_r_response_size,       \* per TagInfo
    cip_w_request_size, cip_w_response_size,
    do_write, is_writing,
    data, data_size, valid_data_size,
    consumer_lock,      \* tag whose data_lock the consumer holds, or NoTag
    task_lock,          \* tag whose data_lock the scan task holds, or NoTag
    dm_info,            \* determine_MultiRequest_count: its "info"
    pc,                 \* position of the scan task
    list,               \* PLC_scan_task: index of "list"
    start_ticks, next_schedule_ticks, transfer_ok, wake,
    info, info_position, count, i,                 \* process_ScanList locals
    requests_size, responses_size,
    multi_request_size, multi_response_size,
    ps_data_size,       \* process_ScanList local data_size; Unset = never assigned
    request,            \* items placed in the MultiRequest being built / sent
    callbacks_run,      \* callbacks invoked for the transfer being handled
    examined,           \* sizes determine_MultiRequest_count has tried
    slices,             \* transfers of the current pass over "list"
    stopped,            \* why the current pass ended without a transfer
    item_status,        \* what the response loop did with the item at hand
    sockets,            \* sockets of the PLC's connection that are open
    restart_returned,   \* what the latest drvEtherIP_restart returned, or Unset
    PLCs,               \* drvEtherIP_private.PLCs
    scanlists,          \* plc->scanlists: period and taginfos of each list
    taginfo,            \* the TagInfo objects: string_tag, elements, scanlist
                        \* (the list of the back-reference, 0: null), callbacks
    private_lock,       \* drvEtherIP_private.lock: owner and count
    plc_sem,            \* plc->lock as the public interface takes it
    call,               \* per caller: the interface function it is in
    calls_made,
    result,             \* per caller: what its latest call returned
    returned,           \* TagInfos drvEtherIP_add_tag has returned
    asked,              \* per tag name: least period and largest element
                        \* count of the calls that returned a TagInfo, and
                        \* whether every call for the name returned one
    last_add,           \* per tag name: the latest drvEtherIP_add_tag
    invoked,            \* the callbacks the scan task called last, in order
    tag_sem,            \* info->data_lock of the tag, taken by any task
    thread,             \* per task: the function it is in, the instruction
                        \* it is at, the locks its semTake calls returned OK for
    mr_bytes,           \* the MR_Request being built, from its count field on
    mr_calls,           \* calls of CIP_MultiRequest_item since the prepare
    mr_round,           \* requests prepared in this buffer so far
    fn_in,              \* input of the ether_ip.c function under study
    fn_out,             \* what that function made of fn_in
    c_sock,             \* c->sock of the EIPConnection: 0 or the socket
    c_session,          \* c->session
    startup,            \* how far EIP_startup has come on this connection
    opened,             \* what the last EIP_startup returned
    steps,              \* the calls EIP_startup has made, with their results
    connects,           \* calls of EIP_init_and_connect so far
    assigned,           \* session the target assigned on this connection, or 0
    completed,          \* complete_PLC_ScanList_TagInfos ran on this connection
    last_sent,          \* headers of the frames the last call handed to send
    last_recv,          \* header of the last frame received, and its use
    cip_sizes,          \* per tag: the four cip_*_size fields of its TagInfo
    probes,             \* per tag: EIP_read_tag calls of the last completion
    task_pc,            \* PLC_scan_task as a loop: where the task is
    lock_owner,         \* plc->lock: the task that owns it, or NoCaller
    lock_queue,         \* tasks pended in semTake(plc->lock, WAIT_FOREVER)
    plc_connected,      \* plc->connection.sock # 0
    tag_state,          \* per tag: on a scan list, read sizes, valid data
    due_in,             \* per list: ticks until its scheduled_ticktime
    list_no,            \* the list the for loop of the task is at
    next_in,            \* next_schedule_ticks, in ticks from now; Unset: 0
    delay_left,         \* ticks the running taskDelay has to go
    faults_left,        \* failures and restarts the environment still makes
    last_pass,          \* the process_ScanList call the task made last
    probe_size,         \* per tag: the sizes a probe of it reports
    passes_waited,      \* per caller: passes begun while it was pended
    caller_at,          \* per caller: the function it is in behind its
                        \* semTake(plc->lock), or "none"
    repeated,           \* interface functions that have returned from a
                        \* call that repeated a call that had succeeded
    inserted,           \* per TagInfo: its pairs in the order in which each
                        \* was appended for the first time (first) and for
                        \* the last time (latest)
    ignored,            \* per tag: passes ended since a read of it was set aside
    relatched           \* per tag: passes ended since do_write was set again
                        \* while is_writing was set

taskVars == <<pc, list, start_ticks, next_schedule_ticks, transfer_ok, wake>>
passVars == <<dm_info, info, info_position, count, i, requests_size, responses_size,
              multi_request_size, multi_response_size, ps_data_size, item_status>>
logVars == <<request, callbacks_run, examined, slices, stopped, ignored, relatched>>
sizeVars == <<cip_r_request_size, cip_r_response_size,
              cip_w_request_size, cip_w_response_size>>
tagVars == <<do_write, is_writing, data, data_size, valid_data_size>>
listVars == <<scheduled_ticktime, list_errors, enabled>>
plcVars == <<sock, transfer_buffer_limit, scan_task, plc_lock, timeout_ticks,
            plc_errors, slow_scans>>
lockVars == <<consumer_lock, task_lock>>
connVars == <<sockets, restart_returned>>
driverVars == <<now, clock_steps, plcVars, listVars, sizeVars, tagVars, lockVars,
                taskVars, passVars, logVars, connVars>>
structVars == <<PLCs, scanlists, taginfo, private_lock, plc_sem, call, calls_made,
                result, returned, asked, last_add, invoked, inserted,
                repeated>>
threadVars == <<tag_sem, thread>>
multiVars == <<mr_bytes, mr_calls, mr_round>>
fnVars == <<fn_in, fn_out>>
sessVars == <<c_sock, c_session, startup, opened, steps, connects, assigned,
              completed, last_sent, last_recv, cip_sizes, probes>>
liveVars == <<task_pc, lock_owner, lock_queue, plc_connected, tag_state, due_in,
              list_no, next_in, delay_left, faults_left, last_pass, probe_size,
              passes_waited, caller_at>>
wireVars == <<multiVars, fnVars, sessVars, liveVars>>
vars == <<driverVars, structVars, threadVars, wireVars>>

\* ------------------------------------------------------------ ether_ip.c
CIA_path_size(attr) == IF attr # 0 THEN 3 ELSE 2

CIP_MultiRequest_size(cnt, reqs) ==
    2 + CIA_path_size(0) * 2 + 2 + 2 * cnt + reqs

CIP_MultiResponse_size(cnt, resps) ==
    4 + 2 + 2 * cnt + resps

\* ------------------------------------------------------------ list walking
TagsOf(l) == ScanListTags[l]
Range(seq) == {seq[k] : k \in 1..Len(seq)}
\* Fault: the walk of a list stops one tag short.
IsNullEarly(l, p) == p >= Len(TagsOf(l))
\* "info" is a position in the list's DLL; Len+1 is the null pointer.
IsNull(l, p) == p > Len(TagsOf(l))
TagAt(l, p) == TagsOf(l)[p]

\* timeout_ticks as PLC_scan_task computes it at task start.
ClampTimeout(raw) == IF raw <= MinTimeoutTicks THEN MinTimeoutTicks ELSE raw

\* ------------------------------------------------------------ drvEtherIP.c
\* Fault: only the size of the MultiRequest is held against the limit.
DetermineTryRequestOnly(limit, acc, req, resp) ==
    LET try_req == acc.requests_size + req
        try_resp == acc.responses_size + resp
        mreq == CIP_MultiRequest_size(acc.count + 1, try_req)
        mresp == CIP_MultiResponse_size(acc.count + 1, try_resp)
    IN  IF mreq > limit
        THEN [acc EXCEPT
                !.multi_request_size = CIP_MultiRequest_size(acc.count, acc.requests_size),
                !.multi_response_size = CIP_MultiResponse_size(acc.count, acc.responses_size),
                !.returned = TRUE]
        ELSE [count |-> acc.count + 1,
              requests_size |-> try_req,
              responses_size |-> try_resp,
              multi_request_size |-> mreq,
              multi_response_size |-> mresp,
              returned |-> FALSE]

\* One pass of the for loop of determine_MultiRequest_count over a tag whose
\* data_lock was taken: acc holds count and the four size outputs, req/resp are
\* the sizes chosen by do_write.  returned = TRUE is "return count" (more won't fit).
DetermineTry(limit, acc, req, resp) ==
    LET try_req == acc.requests_size + req
        try_resp == acc.responses_size + resp
        mreq == CIP_MultiRequest_size(acc.count + 1, try_req)
        mresp == CIP_MultiResponse_size(acc.count + 1, try_resp)
    IN  IF mreq > limit \/ mresp > limit
        THEN [acc EXCEPT
                !.multi_request_size = CIP_MultiRequest_size(acc.count, acc.requests_size),
                !.multi_response_size = CIP_MultiResponse_size(acc.count, acc.responses_size),
                !.returned = TRUE]
        ELSE [count |-> acc.count + 1,
              requests_size |-> try_req,
              responses_size |-> try_resp,
              multi_request_size |-> mreq,
              multi_response_size |-> mresp,
              returned |-> FALSE]

\* invalidate_PLC_tags: a tag whose data_lock cannot be taken is passed over.
invalidate_PLC_tags ==
    [t \in Tags |-> IF consumer_lock = t THEN valid_data_size[t] ELSE 0]

\* disconnect_PLC: (sock', sockets', valid_data_size'); EIP_shutdown closes the
\* socket of a connection that is there.
disconnect_PLC ==
    /\ sock' = FALSE
    /\ sockets' = IF sock THEN sockets - 1 ELSE sockets
    /\ valid_data_size' = IF sock THEN invalidate_PLC_tags ELSE valid_data_size

\* Fault: assert_PLC_connect starts a connection although there is one.
NeverConnected == FALSE
\* "if (plc->connection.sock) return true;" of assert_PLC_connect.
IsConnected == sock

\* Fault: the write request estimated as long as the read request.
WriteAsRead(rreq, rresp) == rreq

\* Write sizes derived from a successful probe (complete_PLC_ScanList_TagInfos).
ProbedWriteReq(rreq, rresp) == IF rresp <= 4 THEN 0 ELSE rreq + (rresp - 4)
ProbedWriteResp(rresp) == IF rresp <= 4 THEN 0 ELSE 4

\* Size of the data part of a single CIP_ReadData response of a tag
\* (EIP_raw_MR_Response_data, no extended status).
ReadDataSize(t) == IF cip_r_response_size[t] > 4 THEN cip_r_response_size[t] - 4 ELSE 0

\* Fault: a tag without sizes is not passed over.
NeverSkipped(t) == FALSE
\* "if (info->cip_r_request_size <= 0) continue;" of the three loops over a list.
IsSkipped(t) == cip_r_request_size[t] <= 0

\* Fault: is_writing is set whether or not a write was requested.
LatchedAlways(t) == TRUE
\* is_writing after determine_MultiRequest_count looked at do_write under the lock.
LatchedIsWriting(t) == IF do_write[t] THEN TRUE ELSE is_writing[t]

\* Fault: a read is requested even for a tag that is_writing.
ReadItemOnly(t) ==
    [tag |-> t, write |-> FALSE, size |-> cip_r_request_size[t], value |-> NoValue]
\* The item process_ScanList places in the MultiRequest for a tag: a
\* CIP_WriteData of the buffer's content when is_writing, else a CIP_ReadData.
RequestItem(t) ==
    IF is_writing[t]
    THEN [tag |-> t, write |-> TRUE, size |-> cip_w_request_size[t], value |-> data[t]]
    ELSE [tag |-> t, write |-> FALSE, size |-> cip_r_request_size[t], value |-> NoValue]

\* Fault: a read response is stored although a write was requested meanwhile.
ReadNeverIgnored(t) == FALSE
\* "if (info->do_write)" of the read branch: the response is set aside.
ReadIsIgnored(t) == do_write[t]

\* Fault: the loop over info->callbacks starts at the second callback.
CallbacksButFirst(t) == Tail(TagCallbacks[t])
\* The callbacks the loop over info->callbacks invokes, in order.
CallbacksOf(t) == TagCallbacks[t]

\* Fault: the data_lock of the tag is not given back after its callbacks.
LockKeptAfterItem(t) == t
\* "semGive(info->data_lock)" that ends the handling of a response item.
LockAfterItem(t) == NoTag

\* "if (start_ticks >= list->scheduled_ticktime)", start_ticks just read.
IsDue(l) == now >= scheduled_ticktime[l]

\* Fault: the list is rescheduled from the tick the pass ended at.
RescheduleFromNow(l) == now + PeriodTicks[l]
\* "reschedule exactly": start_ticks + list->period_ticks.
RescheduleExactly(l) == start_ticks + PeriodTicks[l]

\* ------------------------------------------------------------ initial state
\* drvEtherIP_init, one drvEtherIP_define_PLC and the drvEtherIP_add_tag calls
\* that made ScanListTags have run; drvEtherIP_restart has not.
InitDriver ==
    /\ now = 0 /\ clock_steps = 0
    /\ sock = FALSE /\ transfer_buffer_limit = 0
    /\ scan_task = FALSE /\ plc_lock = FALSE
    /\ timeout_ticks \in {ClampTimeout(r) : r \in RawTimeoutTicks}
    /\ plc_errors = 0 /\ slow_scans = 0
    /\ scheduled_ticktime = [l \in Lists |-> 0]
    /\ list_errors = [l \in Lists |-> 0]
    /\ enabled = [l \in Lists |-> TRUE]
    /\ cip_r_request_size = [t \in Tags |-> 0]
    /\ cip_r_response_size = [t \in Tags |-> 0]
    /\ cip_w_request_size = [t \in Tags |-> 0]
    /\ cip_w_response_size = [t \in Tags |-> 0]
    /\ do_write = [t \in Tags |-> FALSE]
    /\ is_writing = [t \in Tags |-> FALSE]
    /\ data = [t \in Tags |-> NoValue]
    /\ data_size = [t \in Tags |-> 0]
    /\ valid_data_size = [t \in Tags |-> 0]
    /\ consumer_lock = NoTag /\ task_lock = NoTag
    /\ sockets = 0 /\ restart_returned = Unset
    /\ pc = "none" /\ list = 1
    /\ start_ticks = 0 /\ next_schedule_ticks = 0 /\ transfer_ok = TRUE /\ wake = 0
    /\ info = 1 /\ info_position = 1 /\ count = 0 /\ i = 0 /\ dm_info = 1
    /\ requests_size = 0 /\ responses_size = 0
    /\ multi_request_size = Unset /\ multi_response_size = Unset
    /\ ps_data_size = Unset /\ item_status = "none"
    /\ ignored = [t \in Tags |-> 0] /\ relatched = [t \in Tags |-> 0]
    /\ request = <<>> /\ callbacks_run = <<>> /\ examined = <<>>
    /\ slices = <<>> /\ stopped = "no"

\* The structure drvEtherIP_init leaves.
EmptyStructure ==
    /\ PLCs = <<>> /\ scanlists = <<>> /\ taginfo = <<>>
    /\ private_lock = FreeSem /\ plc_sem = FreeSem
    /\ call = [c \in Callers |-> [op |-> "idle", name |-> "", addr |-> <<"", 0>>,
                                  period |-> 0, elements |-> 0, list |-> 0,
                                  info |-> 0, pair |-> "", found |-> 0]]
    /\ calls_made = 0
    /\ result = [c \in Callers |-> Unset]
    /\ returned = {}
    /\ asked = [n \in TagNames |-> [period |-> 0, elements |-> 0, ok |-> TRUE]]
    /\ last_add = [n \in TagNames |-> [period |-> 0, elements |-> 0, info |-> 0]]
    /\ invoked = [info |-> 0, pairs |-> <<>>]
    /\ inserted = [t \in 1..MaxCalls |-> [first |-> <<>>, latest |-> <<>>]]
    /\ repeated = {}
    /\ tag_sem = FreeSem
    /\ thread = [th \in Callers \cup {Worker, Device} |->
                    [op |-> "none", pc |-> 0, have |-> {}]]

\* The structure after one drvEtherIP_define_PLC.
OnePLC ==
    /\ PLCs = << [name |-> "plc1", ip_addr |-> "10.0.0.1", slot |-> 0] >>
    /\ scanlists = <<>> /\ taginfo = <<>>
    /\ private_lock = FreeSem /\ plc_sem = FreeSem
    /\ call = [c \in Callers |-> [op |-> "idle", name |-> "", addr |-> <<"", 0>>,
                                  period |-> 0, elements |-> 0, list |-> 0,
                                  info |-> 0, pair |-> "", found |-> 0]]
    /\ calls_made = 0
    /\ result = [c \in Callers |-> Unset]
    /\ returned = {}
    /\ asked = [n \in TagNames |-> [period |-> 0, elements |-> 0, ok |-> TRUE]]
    /\ last_add = [n \in TagNames |-> [period |-> 0, elements |-> 0, info |-> 0]]
    /\ invoked = [info |-> 0, pairs |-> <<>>]
    /\ inserted = [t \in 1..MaxCalls |-> [first |-> <<>>, latest |-> <<>>]]
    /\ repeated = {}
    /\ tag_sem = FreeSem
    /\ thread = [th \in Callers \cup {Worker, Device} |->
                    [op |-> "none", pc |-> 0, have |-> {}]]

\* The structure after drvEtherIP_define_PLC and a drvEtherIP_add_tag for each
\* name of TagNames, each with a period of its own.
OneTagPerList ==
    /\ PLCs = << [name |-> "plc1", ip_addr |-> "10.0.0.1", slot |-> 0] >>
    /\ scanlists = << [period |-> 1, taginfos |-> <<1>>],
                      [period |-> 2, taginfos |-> <<2>>] >>
    /\ taginfo = << [string_tag |-> "x", elements |-> 1, scanlist |-> 1,
                     callbacks |-> <<>>],
                    [string_tag |-> "y", elements |-> 1, scanlist |-> 2,
                     callbacks |-> <<>>] >>
    /\ private_lock = FreeSem /\ plc_sem = FreeSem
    /\ call = [c \in Callers |-> [op |-> "idle", name |-> "", addr |-> <<"", 0>>,
                                  period |-> 0, elements |-> 0, list |-> 0,
                                  info |-> 0, pair |-> "", found |-> 0]]
    /\ calls_made = 0
    /\ result = [c \in Callers |-> Unset]
    /\ returned = {1, 2}
    /\ asked = [n \in TagNames |->
                    [period |-> IF n = "x" THEN 1 ELSE 2, elements |-> 1, ok |-> TRUE]]
    /\ last_add = [n \in TagNames |->
                    [period |-> IF n = "x" THEN 1 ELSE 2, elements |-> 1,
                     info |-> IF n = "x" THEN 1 ELSE 2]]
    /\ invoked = [info |-> 0, pairs |-> <<>>]
    /\ inserted = [t \in 1..MaxCalls |-> [first |-> <<>>, latest |-> <<>>]]
    /\ repeated = {}
    /\ tag_sem = FreeSem
    /\ thread = [th \in Callers \cup {Worker, Device} |->
                    [op |-> "none", pc |-> 0, have |-> {}]]

\* The structure the configuration stands for: one PLC, the scan lists of
\* ScanListTags with their periods in ticks, the callbacks of TagCallbacks.
ConfiguredStructure ==
    /\ PLCs = << [name |-> "plc1", ip_addr |-> "10.0.0.1", slot |-> 0] >>
    /\ scanlists = [l \in Lists |-> [period |-> PeriodTicks[l],
                                      taginfos |-> ScanListTags[l]]]
    /\ taginfo = [t \in Tags |->
                    [string_tag |-> ToString(t), elements |-> 1,
                     scanlist |-> CHOOSE l \in Lists : t \in Range(TagsOf(l)),
                     callbacks |-> TagCallbacks[t]]]
    /\ private_lock = FreeSem /\ plc_sem = FreeSem
    /\ call = [c \in Callers |-> [op |-> "idle", name |-> "", addr |-> <<"", 0>>,
                                  period |-> 0, elements |-> 0, list |-> 0,
                                  info |-> 0, pair |-> "", found |-> 0]]
    /\ calls_made = 0
    /\ result = [c \in Callers |-> Unset]
    /\ returned = Tags
    /\ asked = [n \in TagNames |-> [period |-> 0, elements |-> 0, ok |-> TRUE]]
    /\ last_add = [n \in TagNames |-> [period |-> 0, elements |-> 0, info |-> 0]]
    /\ invoked = [info |-> 0, pairs |-> <<>>]
    /\ inserted = [t \in Tags |-> [first |-> TagCallbacks[t], latest |-> TagCallbacks[t]]]
    /\ repeated = {}
    /\ tag_sem = FreeSem
    /\ thread = [th \in Callers \cup {Worker, Device} |->
                    [op |-> "none", pc |-> 0, have |-> {}]]

Unapplied == [applied |-> FALSE]

NoFrame == [command |-> "none"]
ProbeTags == {1, 2}
NoSizes == [r_req |-> 0, r_resp |-> 0, w_req |-> 0, w_resp |-> 0]
NoProbe == [calls |-> 0, data |-> FALSE, request_size |-> 0, response_size |-> 0]

\* Nothing of ether_ip.c is in use.
MultiIdle == mr_bytes = <<>> /\ mr_calls = <<>> /\ mr_round = 0
FnIdle == fn_in = <<>> /\ fn_out = Unapplied
SessIdle ==
    /\ c_sock = 0 /\ c_session = 0 /\ startup = "closed" /\ opened = "none"
    /\ steps = <<>> /\ connects = 0 /\ assigned = 0 /\ completed = FALSE
    /\ last_sent = {} /\ last_recv = NoFrame
    /\ cip_sizes = [t \in ProbeTags |-> NoSizes]
    /\ probes = [t \in ProbeTags |-> NoProbe]

NoPass == [list |-> 0, ok |-> TRUE, got |-> {}]
LiveTags == {1, 2, 3}
LiveIdle ==
    /\ task_pc = "none" /\ lock_owner = NoCaller /\ lock_queue = <<>>
    /\ plc_connected = FALSE
    /\ tag_state = [t \in LiveTags |-> [listed |-> FALSE, r_req |-> 0, r_resp |-> 0,
                                        valid |-> FALSE]]
    /\ due_in = <<0, 0>> /\ list_no = 0 /\ next_in = Unset /\ delay_left = 0
    /\ faults_left = 0 /\ last_pass = NoPass
    /\ probe_size = [t \in LiveTags |-> <<0, 0>>]
    /\ passes_waited = [c \in Callers |-> 0]
    /\ caller_at = [c \in Callers |-> "none"]

WireIdle == MultiIdle /\ FnIdle /\ SessIdle /\ LiveIdle

Init ==
    /\ InitDriver
    /\ ConfiguredStructure
    /\ WireIdle

\* ------------------------------------------------------------ PLC_scan_task
\* Locals of a function are given their initial values again when the function
\* returns or the value is dead, so that states do not differ in dead values.
ForgetPassLocals ==
    /\ dm_info' = 1 /\ info' = 1 /\ info_position' = 1 /\ count' = 0 /\ i' = 0
    /\ requests_size' = 0 /\ responses_size' = 0
    /\ multi_request_size' = Unset /\ multi_response_size' = Unset
    /\ ps_data_size' = Unset /\ item_status' = "none"

\* process_ScanList returns ok; why records the place it returned from.
ReturnFromProcess(ok, why) ==
    /\ pc' = "list_done" /\ transfer_ok' = ok /\ stopped' = why
    /\ ForgetPassLocals
    /\ examined' = <<>>

\* "goto scan_loop" together with "next_schedule_ticks = 0" at the label.
GotoScanLoop ==
    /\ pc' = "scan_loop" /\ next_schedule_ticks' = 0 /\ start_ticks' = 0 /\ wake' = 0

\* Tags complete_PLC_ScanList_TagInfos looks at: both read sizes are 0.
Unprobed == {t \in Tags : cip_r_request_size[t] = 0 /\ cip_r_response_size[t] = 0}

\* scan_loop: semTake(plc->lock), then assert_PLC_connect.
\* EIP_startup sets the transfer limit and may fail; when it succeeds
\* complete_PLC_ScanList_TagInfos probes every tag whose read sizes are both 0,
\* and assert_PLC_connect succeeds if one of these probes did.
ScanLoop ==
    /\ pc = "scan_loop" /\ ~plc_lock
    /\ IF IsConnected
       THEN /\ plc_lock' = TRUE
            /\ pc' = "lists" /\ list' = 1
            /\ UNCHANGED <<sock, sockets, transfer_buffer_limit, sizeVars, wake>>
       ELSE \E started \in BOOLEAN :
            LET probed == IF started THEN Unprobed \ UnknownTags ELSE {} IN
            /\ sock' = started
            /\ sockets' = IF started THEN sockets + 1 ELSE sockets
            /\ transfer_buffer_limit' = TransferBufferLimit
            /\ cip_r_request_size' = [t \in Tags |->
                    IF t \in probed THEN ProbeReqSize[t] ELSE cip_r_request_size[t]]
            /\ cip_r_response_size' = [t \in Tags |->
                    IF t \in probed THEN ProbeRespSize[t] ELSE cip_r_response_size[t]]
            /\ cip_w_request_size' = [t \in Tags |->
                    IF t \in probed
                    THEN ProbedWriteReq(ProbeReqSize[t], ProbeRespSize[t])
                    ELSE cip_w_request_size[t]]
            /\ cip_w_response_size' = [t \in Tags |->
                    IF t \in probed THEN ProbedWriteResp(ProbeRespSize[t])
                    ELSE cip_w_response_size[t]]
            /\ IF probed # {}
               THEN /\ plc_lock' = TRUE
                    /\ pc' = "lists" /\ list' = 1
                    /\ UNCHANGED wake
               ELSE \* semGive; taskDelay(timeout_ticks); goto scan_loop
                    /\ plc_lock' = FALSE
                    /\ pc' = "sleeping" /\ wake' = now + timeout_ticks
                    /\ UNCHANGED list
    /\ UNCHANGED <<now, clock_steps, scan_task, timeout_ticks, plc_errors, slow_scans,
                   listVars, tagVars, lockVars, start_ticks, next_schedule_ticks,
                   transfer_ok, passVars, logVars>>
    /\ UNCHANGED restart_returned
    /\ UNCHANGED <<structVars, threadVars, wireVars>>

\* Head of the for loop over plc->scanlists, and the semGive after the loop.
NextList ==
    /\ pc = "lists"
    /\ IF list > Len(ScanListTags)
       THEN /\ plc_lock' = FALSE /\ pc' = "sleep" /\ list' = 1
            /\ UNCHANGED <<start_ticks, next_schedule_ticks, slices>>
       ELSE IF ~enabled[list]
       THEN /\ list' = list + 1
            /\ UNCHANGED <<plc_lock, pc, start_ticks, next_schedule_ticks, slices>>
       ELSE /\ UNCHANGED plc_lock
            /\ IF IsDue(list)
               THEN \* list->scan_ticktime = start_ticks; process_ScanList(...)
                    /\ start_ticks' = now
                    /\ pc' = "process" /\ slices' = <<>>
                    /\ UNCHANGED <<list, next_schedule_ticks>>
               ELSE /\ next_schedule_ticks' =
                        IF next_schedule_ticks <= 0
                           \/ next_schedule_ticks > scheduled_ticktime[list]
                        THEN scheduled_ticktime[list] ELSE next_schedule_ticks
                    /\ list' = list + 1
                    /\ UNCHANGED <<pc, start_ticks, slices>>
    /\ UNCHANGED <<now, clock_steps, sock, transfer_buffer_limit, scan_task,
                   timeout_ticks, plc_errors,
                   slow_scans, listVars, sizeVars, tagVars, lockVars, transfer_ok, wake,
                   passVars, request, callbacks_run, examined, stopped, ignored, relatched>>
    /\ UNCHANGED connVars
    /\ UNCHANGED <<structVars, threadVars, wireVars>>

\* ------------------------------------------------------------ process_ScanList
\* A transfer that is going to fail is counted by PLC_scan_task; the counters
\* are capped for the exploration.
CanFail == plc_errors < MaxErrors

\* Head of "while (info)": leave with true, or start determine_MultiRequest_count.
ProcessWhile ==
    /\ pc = "process"
    /\ IF IsNull(list, info)
       THEN /\ ReturnFromProcess(TRUE, stopped)
            /\ UNCHANGED <<request, callbacks_run>>
       ELSE /\ info_position' = info
            /\ count' = 0 /\ requests_size' = 0 /\ responses_size' = 0
            /\ dm_info' = info /\ examined' = <<>>
            /\ pc' = "count"
            /\ UNCHANGED <<transfer_ok, info, i, multi_request_size,
                           multi_response_size, ps_data_size, item_status, request,
                           callbacks_run, stopped>>
    /\ UNCHANGED <<now, clock_steps, plcVars, listVars, sizeVars, tagVars, lockVars,
                   list, start_ticks, next_schedule_ticks, wake, slices, ignored, relatched>>
    /\ UNCHANGED connVars
    /\ UNCHANGED <<structVars, threadVars, wireVars>>

\* One pass of the for loop of determine_MultiRequest_count (or its end).
\* On return, count is the returned value.
DetermineStep ==
    /\ pc = "count"
    /\ IF IsNull(list, dm_info)
       THEN \* loop ran out: return count
            /\ pc' = "counted"
            /\ stopped' = IF count = 0 THEN "empty" ELSE stopped
            /\ UNCHANGED <<dm_info, count, requests_size, responses_size,
                           multi_request_size, multi_response_size, is_writing,
                           examined>>
       ELSE LET t == TagAt(list, dm_info) IN
            IF IsSkipped(t)
            THEN /\ dm_info' = dm_info + 1
                 /\ UNCHANGED <<pc, count, requests_size, responses_size,
                                multi_request_size, multi_response_size, is_writing,
                                examined, stopped>>
            ELSE IF consumer_lock = t
            THEN \* semTake timed out: return 0
                 /\ pc' = "counted" /\ count' = 0 /\ stopped' = "nolock"
                 /\ UNCHANGED <<dm_info, requests_size, responses_size,
                                multi_request_size, multi_response_size, is_writing,
                                examined>>
            ELSE LET req == IF do_write[t] THEN cip_w_request_size[t]
                                             ELSE cip_r_request_size[t]
                     resp == IF do_write[t] THEN cip_w_response_size[t]
                                              ELSE cip_r_response_size[t]
                     acc == [count |-> count,
                             requests_size |-> requests_size,
                             responses_size |-> responses_size,
                             multi_request_size |-> multi_request_size,
                             multi_response_size |-> multi_response_size,
                             returned |-> FALSE]
                     res == DetermineTry(transfer_buffer_limit, acc, req, resp)
                 IN  /\ is_writing' = [is_writing EXCEPT ![t] = LatchedIsWriting(t)]
                     /\ count' = res.count
                     /\ requests_size' = res.requests_size
                     /\ responses_size' = res.responses_size
                     /\ multi_request_size' = res.multi_request_size
                     /\ multi_response_size' = res.multi_response_size
                     /\ examined' = Append(examined,
                                       [tag |-> t, write |-> do_write[t],
                                        req |-> req, resp |-> resp])
                     /\ IF res.returned
                        THEN /\ pc' = "counted"
                             /\ stopped' = IF res.count = 0 THEN "nofit" ELSE stopped
                             /\ UNCHANGED dm_info
                        ELSE /\ dm_info' = dm_info + 1
                             /\ UNCHANGED <<pc, stopped>>
    /\ UNCHANGED <<now, clock_steps, plcVars, listVars, sizeVars, do_write, data,
                   data_size, valid_data_size, lockVars, list, start_ticks,
                   next_schedule_ticks, transfer_ok, wake, info, info_position, i,
                   ps_data_size, item_status, request, callbacks_run, slices,
                   ignored, relatched>>
    /\ UNCHANGED connVars
    /\ UNCHANGED <<structVars, threadVars, wireVars>>

\* "if (count == 0) return true;" and the set-up of the request buffer
\* (EIP_make_SendRRData, make_CM_Unconnected_Send, prepare_CIP_MultiRequest);
\* EIP_make_SendRRData fails when the send buffer cannot grow.
AfterCount ==
    /\ pc = "counted"
    /\ IF count = 0
       THEN /\ ReturnFromProcess(TRUE, stopped)
            /\ UNCHANGED <<request, callbacks_run>>
       ELSE \E reserved \in BOOLEAN :
            /\ reserved \/ CanFail
            /\ IF reserved
               THEN /\ pc' = "build" /\ i' = 0
                    /\ UNCHANGED <<transfer_ok, stopped, examined, dm_info, info, info_position,
                                   count, requests_size, responses_size,
                                   multi_request_size, multi_response_size,
                                   ps_data_size, item_status, request,
                                   callbacks_run>>
               ELSE /\ ReturnFromProcess(FALSE, "alloc")
                    /\ UNCHANGED <<request, callbacks_run>>
    /\ UNCHANGED <<now, clock_steps, plcVars, listVars, sizeVars, tagVars, lockVars,
                   list, start_ticks, next_schedule_ticks, wake, slices, ignored, relatched>>
    /\ UNCHANGED connVars
    /\ UNCHANGED <<structVars, threadVars, wireVars>>

\* One pass of "for (i=0; i<count; info=DLL_next(info))" that adds the requests.
BuildStep ==
    /\ pc = "build"
    /\ IF i >= count
       THEN \* all requests placed; transfer_ticktime = tickGet()
            /\ pc' = "send"
            /\ slices' = Append(slices, [k \in 1..Len(request) |-> request[k].tag])
            /\ UNCHANGED <<passVars, request, callbacks_run, examined, do_write,
                           transfer_ok, stopped, ignored, relatched>>
       ELSE LET t == TagAt(list, info) IN
            IF IsSkipped(t)
            THEN /\ info' = info + 1
                 /\ UNCHANGED <<pc, dm_info, info_position, count, i, requests_size,
                                responses_size, multi_request_size,
                                multi_response_size, ps_data_size, item_status,
                                request, callbacks_run, examined, do_write,
                                transfer_ok, stopped, slices, ignored, relatched>>
            ELSE IF is_writing[t] /\ consumer_lock = t
            THEN \* no data lock (write): return false
                 /\ CanFail
                 /\ ReturnFromProcess(FALSE, "wlock")
                 /\ UNCHANGED <<do_write, slices, request, callbacks_run, ignored, relatched>>
            ELSE /\ request' = Append(request, RequestItem(t))
                 /\ do_write' = IF is_writing[t]
                                THEN [do_write EXCEPT ![t] = FALSE] ELSE do_write
                 /\ ignored' = IF is_writing[t]
                               THEN [ignored EXCEPT ![t] = 0] ELSE ignored
                 /\ relatched' = IF is_writing[t]
                                 THEN [relatched EXCEPT ![t] = 0] ELSE relatched
                 /\ i' = i + 1 /\ info' = info + 1
                 /\ UNCHANGED <<pc, dm_info, info_position, count, requests_size,
                                responses_size, multi_request_size,
                                multi_response_size, ps_data_size, item_status,
                                callbacks_run, examined, transfer_ok, stopped,
                                slices>>
    /\ UNCHANGED <<now, clock_steps, plcVars, listVars, sizeVars, is_writing, data,
                   data_size, valid_data_size, lockVars, list, start_ticks,
                   next_schedule_ticks, wake>>
    /\ UNCHANGED connVars
    /\ UNCHANGED <<structVars, threadVars, wireVars>>

\* Fault: the response loop starts at the head of the list.
FromListHead == IF IsNull(list, 1) THEN info_position ELSE 1
\* "for (info=info_position, i=0; i<count; ...)": the response loop starts at
\* the tag the request loop started at.
ResponseStart == info_position

\* EIP_send_connection_buffer, EIP_read_connection_buffer and
\* check_CIP_MultiRequest_Response: the frame is sent and an acceptable
\* MultiRequest response comes back, or the transfer fails in one of three ways.
Transfer ==
    /\ pc = "send"
    /\ \E outcome \in {"ok", "send", "noresponse", "status"} :
        IF outcome = "ok"
        THEN /\ pc' = "response" /\ info' = ResponseStart /\ i' = 0
             /\ UNCHANGED <<transfer_ok, stopped, dm_info, info_position, count,
                            requests_size, responses_size, multi_request_size,
                            multi_response_size, ps_data_size, item_status,
                            request, callbacks_run, examined>>
        ELSE /\ CanFail
             /\ ReturnFromProcess(FALSE, outcome)
             /\ UNCHANGED <<request, callbacks_run>>
    /\ UNCHANGED <<now, clock_steps, plcVars, listVars, sizeVars, tagVars, lockVars,
                   list, start_ticks, next_schedule_ticks, wake, slices, ignored, relatched>>
    /\ UNCHANGED connVars
    /\ UNCHANGED <<structVars, threadVars, wireVars>>

\* Values an uninitialised or stale process_ScanList data_size can hold when
\* check_CIP_ReadData_Response returned 0 without filling it.
StaleSizes(t) == {0, ReadDataSize(t)}
DataSizeChoices(t, ds) == IF ds = Unset THEN StaleSizes(t) ELSE {ds}

\* What memcpy can read at address 0: bytes that are no response.
NullBytes == {NoValue}

\* EIP_reserve_buffer(&info->data, &info->data_size, requested): the outcomes.
\* A buffer that is large enough is kept; growing it may fail.
ReserveOutcomes(t, requested) ==
    IF data_size[t] >= requested THEN {TRUE} ELSE {TRUE, FALSE}

\* One pass of the for loop that handles the individual responses, up to and
\* including the deposit under the tag's data_lock (which stays taken).
\* item_status tells what was done with the item.
ResponseStep ==
    /\ pc = "response"
    /\ IF i >= count
       THEN \* "info" now on next unread TagInfo or 0
            /\ pc' = "process"
            /\ request' = <<>> /\ callbacks_run' = <<>>
            /\ UNCHANGED <<passVars, tagVars, task_lock, transfer_ok, examined,
                           stopped, ignored, relatched>>
       ELSE LET t == TagAt(list, info) IN
            IF IsSkipped(t)
            THEN /\ info' = info + 1
                 /\ UNCHANGED <<pc, dm_info, info_position, count, i, requests_size,
                                responses_size, multi_request_size,
                                multi_response_size, ps_data_size, item_status,
                                tagVars, task_lock, transfer_ok, request,
                                callbacks_run, examined, stopped, ignored, relatched>>
            ELSE \E present \in BOOLEAN, ok \in BOOLEAN,
                    size \in {0, ReadDataSize(t)}, value \in PLCValues :
                 IF ~present \/ consumer_lock = t
                 THEN \* get_CIP_MultiRequest_Response returned 0, or
                      \* no data lock (receive): return false
                      /\ CanFail
                      /\ ReturnFromProcess(FALSE, IF present THEN "lock" ELSE "missing")
                      /\ UNCHANGED <<tagVars, task_lock, request, callbacks_run, ignored, relatched>>
                 ELSE /\ pc' = "callbacks" /\ task_lock' = t
                      /\ UNCHANGED <<dm_info, info, info_position, count, i,
                                     requests_size, responses_size, multi_request_size,
                                     multi_response_size, transfer_ok, stopped,
                                     do_write, request, callbacks_run, examined>>
                      /\ IF is_writing[t]
                         THEN \* check_CIP_WriteData_Response
                              /\ valid_data_size' =
                                    IF ok THEN valid_data_size
                                    ELSE [valid_data_size EXCEPT ![t] = 0]
                              /\ is_writing' = [is_writing EXCEPT ![t] = FALSE]
                              /\ item_status' = IF ok THEN "written" ELSE "write_failed"
                              /\ UNCHANGED <<data, data_size, ps_data_size, ignored, relatched>>
                         ELSE \* check_CIP_ReadData_Response fills data_size only
                              \* when the response is a good CIP_ReadData response
                              \E ds \in (IF ok THEN {size}
                                               ELSE DataSizeChoices(t, ps_data_size)) :
                              /\ ps_data_size' = ds
                              /\ UNCHANGED is_writing
                              /\ IF ReadIsIgnored(t)
                                 THEN \* write requested in middle of read cycle
                                      /\ item_status' = "ignored"
                                      /\ ignored' = [ignored EXCEPT ![t] = 1]
                                      /\ UNCHANGED relatched
                                      /\ UNCHANGED <<data, data_size, valid_data_size>>
                                 ELSE \E reserved \in ReserveOutcomes(t, ds) :
                                      /\ UNCHANGED <<ignored, relatched>>
                                      /\ IF ds > 0 /\ reserved
                                         THEN \* memcpy(info->data, data, data_size);
                                              \* data is 0 when the response was bad
                                              /\ \E copied \in (IF ok THEN {value}
                                                                      ELSE NullBytes) :
                                                   data' = [data EXCEPT ![t] = copied]
                                              /\ data_size' = [data_size EXCEPT ![t] =
                                                    IF data_size[t] >= ds
                                                    THEN data_size[t] ELSE ds]
                                              /\ valid_data_size' =
                                                    [valid_data_size EXCEPT ![t] = ds]
                                              /\ item_status' =
                                                    IF ok THEN "stored" ELSE "garbage"
                                         ELSE /\ valid_data_size' =
                                                    [valid_data_size EXCEPT ![t] = 0]
                                              /\ item_status' = "invalid"
                                              /\ UNCHANGED <<data, data_size>>
    /\ UNCHANGED <<now, clock_steps, plcVars, listVars, sizeVars, consumer_lock,
                   list, start_ticks, next_schedule_ticks, wake, slices>>
    /\ UNCHANGED connVars
    /\ UNCHANGED <<structVars, threadVars, wireVars>>

\* "Call all registered callbacks for this tag", semGive(info->data_lock), ++i.
CallbacksStep ==
    /\ pc = "callbacks"
    /\ LET t == TagAt(list, info) IN
        callbacks_run' = callbacks_run \o
            [k \in 1..Len(CallbacksOf(t)) |->
                [tag |-> t, cb |-> CallbacksOf(t)[k], item |-> i,
                 locked |-> task_lock = t, status |-> item_status]]
    /\ task_lock' = LockAfterItem(TagAt(list, info)) /\ item_status' = "none"
    /\ i' = i + 1 /\ info' = info + 1
    /\ pc' = "response"
    /\ UNCHANGED <<now, clock_steps, plcVars, listVars, sizeVars, tagVars,
                   consumer_lock, list, start_ticks, next_schedule_ticks,
                   transfer_ok, wake, dm_info, info_position, count,
                   requests_size, responses_size, multi_request_size,
                   multi_response_size, ps_data_size,
                   request, examined, slices, stopped, ignored, relatched>>
    /\ UNCHANGED connVars
    /\ UNCHANGED <<structVars, threadVars, wireVars>>

\* A pass over list l is over: a write request of one of its tags that waits
\* to be built grows one pass older (age[t] = 0: none waits; 3: two passes ended).
Aged(age, l) ==
    [t \in Tags |-> IF age[t] \in {1, 2}
                       /\ \E p \in 1..Len(TagsOf(l)) : TagAt(l, p) = t
                    THEN age[t] + 1 ELSE age[t]]

\* PLC_scan_task after process_ScanList returned: reschedule the list, and on a
\* failed transfer count the error, disconnect and goto scan_loop.
ListDone ==
    /\ pc = "list_done"
    /\ IF transfer_ok
       THEN LET sched == RescheduleExactly(list) IN
            /\ scheduled_ticktime' = [scheduled_ticktime EXCEPT ![list] = sched]
            /\ next_schedule_ticks' =
                    IF next_schedule_ticks <= 0 \/ next_schedule_ticks > sched
                    THEN sched ELSE next_schedule_ticks
            /\ list' = list + 1 /\ pc' = "lists"
            /\ start_ticks' = 0
            /\ UNCHANGED <<sock, sockets, valid_data_size, list_errors, plc_errors,
                           plc_lock, wake>>
       ELSE /\ list_errors' = [list_errors EXCEPT ![list] = @ + 1]
            /\ plc_errors' = plc_errors + 1
            /\ scheduled_ticktime' =
                    [scheduled_ticktime EXCEPT ![list] = now + timeout_ticks]
            /\ disconnect_PLC
            /\ plc_lock' = FALSE
            /\ GotoScanLoop /\ list' = 1
    /\ transfer_ok' = TRUE
    /\ request' = <<>> /\ callbacks_run' = <<>> /\ examined' = <<>>
    /\ slices' = <<>> /\ stopped' = "no"
    /\ ignored' = Aged(ignored, list) /\ relatched' = Aged(relatched, list)
    /\ UNCHANGED <<now, clock_steps, transfer_buffer_limit, scan_task, timeout_ticks,
                   slow_scans, enabled,
                   sizeVars, do_write, is_writing, data, data_size, lockVars,
                   passVars>>
    /\ UNCHANGED restart_returned
    /\ UNCHANGED <<structVars, threadVars, wireVars>>

\* After the loop: "sleep until next turn", up to the first read of the clock.
SleepCheck ==
    /\ pc = "sleep"
    /\ IF next_schedule_ticks > 0
       THEN IF now < next_schedule_ticks
            THEN /\ pc' = "delay"
                 /\ UNCHANGED <<slow_scans, wake, start_ticks, next_schedule_ticks>>
            ELSE \* no time to spare, getting behind
                 /\ slow_scans < MaxSlow
                 /\ slow_scans' = slow_scans + 1
                 /\ GotoScanLoop
       ELSE \* fallback for empty/degenerate scan list
            /\ wake' = now + FallbackDelay
            /\ pc' = "sleeping"
            /\ UNCHANGED <<slow_scans, start_ticks, next_schedule_ticks>>
    /\ UNCHANGED <<now, clock_steps, sock, transfer_buffer_limit, scan_task,
                   plc_lock, timeout_ticks,
                   plc_errors, listVars, sizeVars, tagVars, lockVars, list,
                   transfer_ok, passVars, logVars>>
    /\ UNCHANGED connVars
    /\ UNCHANGED <<structVars, threadVars, wireVars>>

\* taskDelay(next_schedule_ticks - tickGet()): the clock is read a second time
\* and the difference is taken in ULONG arithmetic.
Delay ==
    /\ pc = "delay"
    /\ wake' = IF now <= next_schedule_ticks THEN next_schedule_ticks ELSE Never
    /\ pc' = "sleeping"
    /\ next_schedule_ticks' = 0
    /\ UNCHANGED <<now, clock_steps, plcVars, listVars, sizeVars, tagVars, lockVars,
                   list, start_ticks, transfer_ok, passVars, logVars>>
    /\ UNCHANGED connVars
    /\ UNCHANGED <<structVars, threadVars, wireVars>>

\* taskDelay returns.
Wake ==
    /\ pc = "sleeping" /\ now >= wake
    /\ GotoScanLoop
    /\ UNCHANGED <<now, clock_steps, plcVars, listVars, sizeVars, tagVars, lockVars,
                   list, transfer_ok, passVars, logVars>>
    /\ UNCHANGED connVars
    /\ UNCHANGED <<structVars, threadVars, wireVars>>

\* ------------------------------------------------------------ the clock
\* The tick counter advances by one tick; while the scan task sleeps nothing
\* reads the clock, and it runs on to the tick at which the task is due.
Tick ==
    /\ clock_steps < MaxTick
    /\ now' = IF pc = "sleeping" /\ wake > now /\ wake < Never
              THEN wake ELSE now + 1
    /\ clock_steps' = clock_steps + 1
    /\ UNCHANGED <<plcVars, listVars, sizeVars, tagVars, lockVars, taskVars,
                   passVars, logVars>>
    /\ UNCHANGED connVars
    /\ UNCHANGED <<structVars, threadVars, wireVars>>

\* ------------------------------------------------------------ the consumer
\* Device support of an output record working on its tag: it takes the tag's
\* data_lock, may put a new value into the buffer of a tag that holds valid
\* data and request the write, and gives the lock back.
ConsumerLock(t) ==
    /\ consumer_lock = NoTag /\ task_lock # t
    /\ consumer_lock' = t
    /\ UNCHANGED <<now, clock_steps, plcVars, listVars, sizeVars, tagVars, task_lock,
                   taskVars, passVars, logVars>>
    /\ UNCHANGED connVars
    /\ UNCHANGED <<structVars, threadVars, wireVars>>

ConsumerWrite(v) ==
    /\ consumer_lock \in OutputTags
    /\ valid_data_size[consumer_lock] > 0
    /\ data' = [data EXCEPT ![consumer_lock] = v]
    /\ do_write' = [do_write EXCEPT ![consumer_lock] = TRUE]
    /\ relatched' = IF is_writing[consumer_lock] /\ relatched[consumer_lock] = 0
                    THEN [relatched EXCEPT ![consumer_lock] = 1] ELSE relatched
    /\ UNCHANGED <<now, clock_steps, plcVars, listVars, sizeVars, is_writing,
                   data_size, valid_data_size, lockVars, taskVars,
                   passVars, request, callbacks_run, examined, slices, stopped,
                   ignored>>
    /\ UNCHANGED connVars
    /\ UNCHANGED <<structVars, threadVars, wireVars>>

ConsumerUnlock ==
    /\ consumer_lock # NoTag
    /\ consumer_lock' = NoTag
    /\ UNCHANGED <<now, clock_steps, plcVars, listVars, sizeVars, tagVars, task_lock,
                   taskVars, passVars, logVars>>
    /\ UNCHANGED connVars
    /\ UNCHANGED <<structVars, threadVars, wireVars>>

\* ------------------------------------------------------------ public interface
\* drvEtherIP_restart: under plc->lock, disconnect, and spawn the scan task
\* unless one is alive.  taskSpawn may fail; its result is stored as the task id
\* and counted either way.
drvEtherIP_restart ==
    /\ ~plc_lock
    /\ disconnect_PLC
    /\ IF scan_task
       THEN /\ restart_returned' = 0
            /\ UNCHANGED <<scan_task, pc>>
       ELSE \E spawned \in BOOLEAN :
            /\ scan_task' = spawned
            /\ pc' = IF spawned THEN "scan_loop" ELSE pc
            /\ restart_returned' = 1
    /\ UNCHANGED <<now, clock_steps, transfer_buffer_limit, plc_lock, timeout_ticks,
                   plc_errors, slow_scans,
                   listVars, sizeVars, do_write, is_writing, data, data_size,
                   lockVars, list, start_ticks, next_schedule_ticks, transfer_ok,
                   wake, passVars, logVars>>
    /\ UNCHANGED <<structVars, threadVars, wireVars>>

\* ------------------------------------------------------------ specification
ScanTask ==
    \/ ScanLoop \/ NextList \/ ProcessWhile \/ DetermineStep \/ AfterCount
    \/ BuildStep \/ Transfer \/ ResponseStep \/ CallbacksStep \/ ListDone
    \/ SleepCheck \/ Delay \/ Wake

Consumer ==
    \/ \E t \in OutputTags : ConsumerLock(t)
    \/ \E v \in ConsumerValues : ConsumerWrite(v)
    \/ ConsumerUnlock

Next ==
    \/ ScanTask
    \/ Consumer
    \/ Tick
    \/ drvEtherIP_restart

Spec == Init /\ [][Next]_vars

\* ------------------------------------------------------------ one pass, any sizes
\* process_ScanList and determine_MultiRequest_count as functions of their
\* inputs: the scan task holds plc->lock and is about to walk the scan lists
\* of a connected PLC; the limit, the sizes the probes of the tags of the first
\* list reported and a pending write are drawn from the sets below.
BatchLimits == {80, 500}
BatchProbes == {<<0, 0>>, <<30, 30>>, <<12, 286>>}

InitBatch ==
    /\ now = 0 /\ clock_steps = 0
    /\ sock = TRUE /\ transfer_buffer_limit \in BatchLimits
    /\ scan_task = TRUE /\ plc_lock = TRUE
    /\ timeout_ticks \in {ClampTimeout(r) : r \in RawTimeoutTicks}
    /\ plc_errors = 0 /\ slow_scans = 0
    /\ scheduled_ticktime = [l \in Lists |-> 0]
    /\ list_errors = [l \in Lists |-> 0]
    /\ enabled = [l \in Lists |-> TRUE]
    /\ \E first \in [Range(TagsOf(1)) -> BatchProbes] :
        LET probe == [t \in Tags |-> IF t \in Range(TagsOf(1)) THEN first[t]
                                     ELSE <<ProbeReqSize[t], ProbeRespSize[t]>>] IN
        /\ cip_r_request_size = [t \in Tags |-> probe[t][1]]
        /\ cip_r_response_size = [t \in Tags |-> probe[t][2]]
        /\ cip_w_request_size = [t \in Tags |-> ProbedWriteReq(probe[t][1], probe[t][2])]
        /\ cip_w_response_size = [t \in Tags |-> ProbedWriteResp(probe[t][2])]
    /\ do_write \in [Tags -> BOOLEAN]
    /\ \A t \in Tags : do_write[t] => t \in OutputTags /\ cip_r_response_size[t] > 4
    /\ is_writing = [t \in Tags |-> FALSE]
    /\ data = [t \in Tags |-> IF do_write[t] THEN CHOOSE v \in ConsumerValues : TRUE
                                             ELSE NoValue]
    /\ data_size = [t \in Tags |-> IF do_write[t] THEN cip_r_response_size[t] - 4 ELSE 0]
    /\ valid_data_size = data_size
    /\ consumer_lock = NoTag /\ task_lock = NoTag
    /\ sockets = 1 /\ restart_returned = 1
    /\ pc = "lists" /\ list = 1
    /\ start_ticks = 0 /\ next_schedule_ticks = 0 /\ transfer_ok = TRUE /\ wake = 0
    /\ info = 1 /\ info_position = 1 /\ count = 0 /\ i = 0 /\ dm_info = 1
    /\ requests_size = 0 /\ responses_size = 0
    /\ multi_request_size = Unset /\ multi_response_size = Unset
    /\ ps_data_size = Unset /\ item_status = "none"
    /\ ignored = [t \in Tags |-> 0] /\ relatched = [t \in Tags |-> 0]
    /\ request = <<>> /\ callbacks_run = <<>> /\ examined = <<>>
    /\ slices = <<>> /\ stopped = "no"
    /\ ConfiguredStructure
    /\ WireIdle

NextBatch ==
    \/ NextList \/ ProcessWhile \/ DetermineStep \/ AfterCount
    \/ BuildStep \/ Transfer \/ ResponseStep \/ CallbacksStep \/ ListDone
    \/ Consumer

SpecBatch == InitBatch /\ [][NextBatch]_vars

\* ------------------------------------------------------------ the structure
\* The registry drvEtherIP_private.PLCs, the scan lists and tags of the first
\* PLC of the registry and the callbacks of its tags, as the public interface
\* builds them.  A TagInfo is named by its position in taginfo, the objects
\* new_TagInfo has made in the order it made them; a ScanList by its position
\* in plc->scanlists.  Each interface function is two steps of its caller:
\* "begin" is semTake and the search, "end" the rest up to the return.
Structure == [scanlists |-> scanlists, taginfo |-> taginfo]

\* A search loop from DLL_first along DLL_next: the first of the positions
\* that match, or 0.
DLL_find(matches) ==
    IF matches = {} THEN 0
    ELSE CHOOSE k \in matches : \A j \in matches : k <= j

DLL_unlink_at(seq, k) == SubSeq(seq, 1, k - 1) \o SubSeq(seq, k + 1, Len(seq))

DLL_unlink(seq, x) ==
    LET k == DLL_find({j \in 1..Len(seq) : seq[j] = x}) IN
    IF k = 0 THEN seq ELSE DLL_unlink_at(seq, k)

\* Fault: semTake returns although another task holds the semaphore.
TakeAlways(s, c) == TRUE
\* semTake(s, WAIT_FOREVER) of a mutex semaphore returns to c when no other
\* task holds s.
CanTake(s, c) == s.owner \in {NoCaller, c}
semTake(s, c) == [owner |-> c, count |-> s.count + 1]
semGive(s) == IF s.count > 1 THEN [s EXCEPT !.count = @ - 1] ELSE FreeSem

\* get_PLC(name, false): position of the entry in the registry, or 0.
get_PLC(name) ==
    DLL_find({k \in 1..Len(PLCs) : PLCs[k].name = name})

\* get_PLC_ScanList(plc, period, false)
get_PLC_ScanList(S, period) ==
    DLL_find({l \in 1..Len(S.scanlists) : S.scanlists[l].period = period})

\* find_ScanList_Tag: the TagInfo of that name on list l, or 0.
find_ScanList_Tag(S, l, string_tag) ==
    LET on == S.scanlists[l].taginfos
        k == DLL_find({j \in 1..Len(on) :
                            S.taginfo[on[j]].string_tag = string_tag}) IN
    IF k = 0 THEN 0 ELSE on[k]

\* find_PLC_tag: <<list, info>> of the first list that has the tag, or <<0, 0>>.
find_PLC_tag(S, string_tag) ==
    LET l == DLL_find({m \in 1..Len(S.scanlists) :
                            find_ScanList_Tag(S, m, string_tag) # 0}) IN
    IF l = 0 THEN <<0, 0>> ELSE <<l, find_ScanList_Tag(S, l, string_tag)>>

remove_ScanList_TagInfo(S, l, t) ==
    [scanlists |-> [S.scanlists EXCEPT ![l].taginfos = DLL_unlink(@, t)],
     taginfo |-> [S.taginfo EXCEPT ![t].scanlist = 0]]

add_ScanList_TagInfo(S, l, t) ==
    [scanlists |-> [S.scanlists EXCEPT ![l].taginfos = Append(@, t)],
     taginfo |-> [S.taginfo EXCEPT ![t].scanlist = l]]

\* new_ScanList that succeeded, appended by get_PLC_ScanList(plc, period, true).
new_ScanList(S, period) ==
    [S EXCEPT !.scanlists = Append(@, [period |-> period, taginfos |-> <<>>])]

\* add_ScanList_Tag whose new_TagInfo succeeded.
add_ScanList_Tag(S, l, string_tag, elements) ==
    LET made == [S EXCEPT !.taginfo =
                    Append(@, [string_tag |-> string_tag, elements |-> elements,
                               scanlist |-> 0, callbacks |-> <<>>])] IN
    add_ScanList_TagInfo(made, l, Len(made.taginfo))

\* "if (info->elements < elements) info->elements = elements;"
MaximizeElements(S, t, elements) ==
    IF S.taginfo[t].elements < elements
    THEN [S EXCEPT !.taginfo[t].elements = elements]
    ELSE S

\* Fault: a tag is moved whenever the periods differ.
PeriodDiffers(has, wanted) == has # wanted
\* "if (list->period > period)": the current scan list is too slow.
TooSlow(has, wanted) == has > wanted

\* Fault: the search of the callbacks of a tag never finds the pair.
NeverFound(cbs, pair) == 0
\* The loop of drvEtherIP_add_callback / drvEtherIP_remove_callback that
\* compares callback and arg: position of the pair, or 0.
FindCallback(cbs, pair) ==
    DLL_find({k \in 1..Len(cbs) : cbs[k] = pair})

Idle ==
    [op |-> "idle", name |-> "", addr |-> <<"", 0>>, period |-> 0, elements |-> 0,
     list |-> 0, info |-> 0, pair |-> "", found |-> 0]

Enter(c, record) ==
    /\ call[c].op = "idle"
    /\ calls_made < MaxCalls
    /\ calls_made' = calls_made + 1
    /\ call' = [call EXCEPT ![c] = record]

Return(c, value) ==
    /\ call' = [call EXCEPT ![c] = Idle]
    /\ result' = [result EXCEPT ![c] = value]

\* drvEtherIP_define_PLC up to the return of get_PLC's search.
define_PLC_begin(c) ==
    \E name \in PLCNames, addr \in Addresses :
    /\ CanTake(private_lock, c)
    /\ private_lock' = semTake(private_lock, c)
    /\ Enter(c, [Idle EXCEPT !.op = "define_PLC", !.name = name, !.addr = addr,
                             !.found = get_PLC(name)])
    /\ UNCHANGED <<PLCs, scanlists, taginfo, plc_sem, result, returned, asked,
                   last_add, invoked, inserted>>
    /\ UNCHANGED <<driverVars, threadVars, wireVars>>
    /\ UNCHANGED repeated

\* The rest of drvEtherIP_define_PLC: new_PLC may fail, and so may the copy of
\* ip_addr (EIP_strdup), which leaves plc->ip_addr null.
define_PLC_end(c) ==
    /\ call[c].op = "define_PLC"
    /\ \E created \in BOOLEAN, copied \in BOOLEAN :
        LET k == call[c].found
            ip == IF copied THEN call[c].addr[1] ELSE NoAddr
            slot == call[c].addr[2] IN
        IF k # 0
        THEN /\ PLCs' = [PLCs EXCEPT ![k].ip_addr = ip, ![k].slot = slot]
             /\ Return(c, 1)
        ELSE IF created
        THEN /\ PLCs' = Append(PLCs, [name |-> call[c].name, ip_addr |-> ip,
                                      slot |-> slot])
             /\ Return(c, 1)
        ELSE /\ PLCs' = PLCs
             /\ Return(c, 0)
    /\ repeated' = IF get_PLC(call[c].name) # 0
                   THEN repeated \cup {"define_PLC"} ELSE repeated
    /\ private_lock' = semGive(private_lock)
    /\ UNCHANGED <<scanlists, taginfo, plc_sem, calls_made, returned, asked,
                   last_add, invoked, inserted>>
    /\ UNCHANGED <<driverVars, threadVars, wireVars>>

\* drvEtherIP_find_PLC
drvEtherIP_find_PLC(c) ==
    \E name \in PLCNames :
    /\ CanTake(private_lock, c)
    /\ call[c].op = "idle"
    /\ calls_made < MaxCalls
    /\ calls_made' = calls_made + 1
    /\ result' = [result EXCEPT ![c] = get_PLC(name)]
    /\ UNCHANGED <<PLCs, scanlists, taginfo, private_lock, plc_sem, call, returned,
                   asked, last_add, invoked, inserted>>
    /\ UNCHANGED <<driverVars, threadVars, wireVars>>
    /\ UNCHANGED repeated

\* drvEtherIP_add_tag up to the return of find_PLC_tag; plc is the first PLC
\* of the registry, which the caller has from drvEtherIP_find_PLC.
add_tag_begin(c) ==
    \E period \in Periods, string_tag \in TagNames, elements \in ElementCounts :
    /\ Len(PLCs) > 0
    /\ CanTake(plc_sem, c)
    /\ plc_sem' = semTake(plc_sem, c)
    /\ LET found == find_PLC_tag(Structure, string_tag) IN
       Enter(c, [Idle EXCEPT !.op = "add_tag", !.name = string_tag,
                             !.period = period, !.elements = elements,
                             !.list = found[1], !.info = found[2]])
    /\ UNCHANGED <<PLCs, scanlists, taginfo, private_lock, result, returned, asked,
                   last_add, invoked, inserted>>
    /\ UNCHANGED <<driverVars, threadVars, wireVars>>
    /\ UNCHANGED repeated

\* What the rest of drvEtherIP_add_tag makes of the structure, and the TagInfo
\* it returns (0: none).  list_made, tag_made: whether new_ScanList and
\* new_TagInfo, if they are called, succeed.
add_tag_outcome(S, cl, list_made, tag_made) ==
    IF cl.info # 0
    THEN IF TooSlow(S.scanlists[cl.list].period, cl.period)
         THEN LET removed == remove_ScanList_TagInfo(S, cl.list, cl.info)
                  has == get_PLC_ScanList(removed, cl.period)
                  withlist == IF has # 0 THEN removed
                              ELSE new_ScanList(removed, cl.period)
                  target == get_PLC_ScanList(withlist, cl.period) IN
              IF has = 0 /\ ~list_made
              THEN [S |-> removed, info |-> 0]
              ELSE [S |-> MaximizeElements(
                              add_ScanList_TagInfo(withlist, target, cl.info),
                              cl.info, cl.elements),
                    info |-> cl.info]
         ELSE [S |-> MaximizeElements(S, cl.info, cl.elements), info |-> cl.info]
    ELSE LET has == get_PLC_ScanList(S, cl.period)
             withlist == IF has # 0 THEN S ELSE new_ScanList(S, cl.period)
             target == get_PLC_ScanList(withlist, cl.period) IN
         IF has = 0 /\ ~list_made
         THEN [S |-> S, info |-> 0]
         ELSE IF ~tag_made
         THEN [S |-> withlist, info |-> 0]
         ELSE LET added == add_ScanList_Tag(withlist, target, cl.name, cl.elements) IN
              [S |-> added, info |-> Len(added.taginfo)]

Min(a, b) == IF a < b THEN a ELSE b
Max(a, b) == IF a > b THEN a ELSE b

\* The rest of drvEtherIP_add_tag.
add_tag_end(c) ==
    /\ call[c].op = "add_tag"
    /\ \E list_made \in BOOLEAN, tag_made \in BOOLEAN :
        LET cl == call[c]
            out == add_tag_outcome(Structure, cl, list_made, tag_made) IN
        /\ scanlists' = out.S.scanlists
        /\ taginfo' = out.S.taginfo
        /\ Return(c, out.info)
        /\ returned' = IF out.info # 0 THEN returned \cup {out.info} ELSE returned
        /\ asked' = [asked EXCEPT ![cl.name] =
                        IF out.info = 0 THEN [@ EXCEPT !.ok = FALSE]
                        ELSE [period |-> IF @.period = 0 THEN cl.period
                                         ELSE Min(@.period, cl.period),
                              elements |-> Max(@.elements, cl.elements),
                              ok |-> @.ok]]
        /\ last_add' = [last_add EXCEPT ![cl.name] =
                        [period |-> cl.period, elements |-> cl.elements,
                         info |-> out.info]]
        /\ repeated' = IF /\ out.info # 0 /\ last_add[cl.name].info # 0
                          /\ last_add[cl.name].period = cl.period
                          /\ last_add[cl.name].elements = cl.elements
                       THEN repeated \cup {"add_tag"} ELSE repeated
    /\ plc_sem' = semGive(plc_sem)
    /\ UNCHANGED <<PLCs, private_lock, calls_made, invoked, inserted>>
    /\ UNCHANGED <<driverVars, threadVars, wireVars>>

\* drvEtherIP_add_callback up to the end of its search; info is a TagInfo that
\* drvEtherIP_add_tag has returned.
add_callback_begin(c) ==
    \E t \in returned, pair \in CallbackPairs :
    /\ CanTake(plc_sem, c)
    /\ plc_sem' = semTake(plc_sem, c)
    /\ Enter(c, [Idle EXCEPT !.op = "add_callback", !.info = t, !.pair = pair,
                             !.found = FindCallback(taginfo[t].callbacks, pair)])
    /\ UNCHANGED <<PLCs, scanlists, taginfo, private_lock, result, returned, asked,
                   last_add, invoked, inserted>>
    /\ UNCHANGED <<driverVars, threadVars, wireVars>>
    /\ UNCHANGED repeated

\* The rest of drvEtherIP_add_callback; when malloc fails the function returns
\* with plc->lock taken.
add_callback_end(c) ==
    /\ call[c].op = "add_callback"
    /\ \E allocated \in BOOLEAN :
        LET t == call[c].info
            pair == call[c].pair IN
        IF call[c].found # 0
        THEN /\ plc_sem' = semGive(plc_sem)
             /\ UNCHANGED <<taginfo, inserted>>
        ELSE IF allocated
        THEN /\ taginfo' = [taginfo EXCEPT ![t].callbacks = Append(@, pair)]
             /\ inserted' = [inserted EXCEPT
                    ![t].first = IF pair \in Range(@) THEN @ ELSE Append(@, pair),
                    ![t].latest = Append(DLL_unlink(@, pair), pair)]
             /\ plc_sem' = semGive(plc_sem)
        ELSE UNCHANGED <<taginfo, inserted, plc_sem>>
    /\ call' = [call EXCEPT ![c] = Idle]
    /\ UNCHANGED <<PLCs, scanlists, private_lock, calls_made, result, returned, asked,
                   last_add, invoked>>
    /\ UNCHANGED <<driverVars, threadVars, wireVars>>
    /\ UNCHANGED repeated

\* drvEtherIP_remove_callback up to the match of its loop.
remove_callback_begin(c) ==
    \E t \in returned, pair \in CallbackPairs :
    /\ CanTake(plc_sem, c)
    /\ plc_sem' = semTake(plc_sem, c)
    /\ Enter(c, [Idle EXCEPT !.op = "remove_callback", !.info = t, !.pair = pair,
                             !.found = FindCallback(taginfo[t].callbacks, pair)])
    /\ UNCHANGED <<PLCs, scanlists, taginfo, private_lock, result, returned, asked,
                   last_add, invoked, inserted>>
    /\ UNCHANGED <<driverVars, threadVars, wireVars>>
    /\ UNCHANGED repeated

\* The rest of drvEtherIP_remove_callback: DLL_unlink of the match, semGive.
remove_callback_end(c) ==
    /\ call[c].op = "remove_callback"
    /\ taginfo' = IF call[c].found # 0
                  THEN [taginfo EXCEPT ![call[c].info].callbacks =
                                            DLL_unlink_at(@, call[c].found)]
                  ELSE taginfo
    /\ plc_sem' = semGive(plc_sem)
    /\ call' = [call EXCEPT ![c] = Idle]
    /\ UNCHANGED <<PLCs, scanlists, private_lock, calls_made, result, returned, asked,
                   last_add, invoked, inserted>>
    /\ UNCHANGED <<driverVars, threadVars, wireVars>>
    /\ UNCHANGED repeated

\* The callbacks of a tag in the order the loop of process_ScanList calls them.
CallbackOrder(cbs) == cbs

\* process_ScanList, holding plc->lock, calls the callbacks of a tag of a scan
\* list after the response for it has been handled.
InvokeCallbacks ==
    \E l \in 1..Len(scanlists) : \E k \in 1..Len(scanlists[l].taginfos) :
    LET t == scanlists[l].taginfos[k] IN
    /\ CanTake(plc_sem, Worker)
    /\ invoked' = [info |-> t, pairs |-> CallbackOrder(taginfo[t].callbacks)]
    /\ UNCHANGED <<PLCs, scanlists, taginfo, private_lock, plc_sem, call, calls_made,
                   result, returned, asked, last_add, inserted>>
    /\ UNCHANGED <<driverVars, threadVars, wireVars>>
    /\ UNCHANGED repeated

DefinePLC == \E c \in Callers : define_PLC_begin(c) \/ define_PLC_end(c)
FindPLC == \E c \in Callers : drvEtherIP_find_PLC(c)
AddTag == \E c \in Callers : add_tag_begin(c) \/ add_tag_end(c)
AddCallback == \E c \in Callers : add_callback_begin(c) \/ add_callback_end(c)
RemoveCallback == \E c \in Callers : remove_callback_begin(c) \/ remove_callback_end(c)

\* The registry and the tags of its first PLC, from the state drvEtherIP_init
\* leaves.  The scan task is not running.
InitRegistry ==
    /\ InitDriver
    /\ EmptyStructure
    /\ WireIdle

NextRegistry ==
    \/ DefinePLC
    \/ FindPLC
    \/ AddTag

SpecRegistry == InitRegistry /\ [][NextRegistry]_vars

\* The scan lists and tags of a PLC, from the state its drvEtherIP_define_PLC
\* leaves.
InitTags ==
    /\ InitDriver
    /\ OnePLC
    /\ WireIdle

NextTags == AddTag

SpecTags == InitTags /\ [][NextTags]_vars

\* The callbacks of the tags of a PLC that has one tag on each of two lists.
InitCallbacks ==
    /\ InitDriver
    /\ OneTagPerList
    /\ WireIdle

NextCallbacks ==
    \/ AddCallback
    \/ RemoveCallback
    \/ InvokeCallbacks

SpecCallbacks == InitCallbacks /\ [][NextCallbacks]_vars

\* ------------------------------------------------------------ locks and accesses
\* Every function of drvEtherIP.c that takes a semaphore, as the sequence of
\* its semTake / semGive calls and of its accesses to the data, valid_data_size,
\* do_write and is_writing of a tag, in program order.  One PLC with one tag;
\* the numbers are lines of drvEtherIP.c.  A path that ends where a semTake
\* with a timeout failed goes on in the program "orelse" names.
Locks == {"registry", "plc", "tag"}
Threads == Callers \cup {Worker, Device}

Take(l) == [do |-> "take", lock |-> l, field |-> "", needs |-> "", orelse |-> ""]
TryTake(l, orelse) ==
    [do |-> "try", lock |-> l, field |-> "", needs |-> "", orelse |-> orelse]
\* semGive, made only when the task's semTake of the lock had succeeded.
Give(l) == [do |-> "give", lock |-> l, field |-> "", needs |-> l, orelse |-> ""]
\* An access made whether or not any lock is held (needs = ""), or only when
\* the semTake before it succeeded.
Read(f, needs) ==
    [do |-> "read", lock |-> "", field |-> f, needs |-> needs, orelse |-> ""]
Write(f, needs) ==
    [do |-> "write", lock |-> "", field |-> f, needs |-> needs, orelse |-> ""]
\* An access to a field of the PLC: ip_addr, slot, connection, the tags of
\* its scan lists, the callbacks of a tag.
ReadPLC(f) ==
    [do |-> "plc_read", lock |-> "", field |-> f, needs |-> "", orelse |-> ""]
WritePLC(f) ==
    [do |-> "plc_write", lock |-> "", field |-> f, needs |-> "", orelse |-> ""]

Program ==
    [define_PLC |-> << Take("registry"),                             \* 973
                       WritePLC("ip_addr"),                          \* 980
                       WritePLC("slot"),                             \* 981
                       Give("registry") >>,                          \* 982
     find_PLC |-> << Take("registry"), Give("registry") >>,          \* 991, 993
     add_tag |-> << Take("plc"),                                     \* 1007
                    WritePLC("taginfos"),                            \* 1029
                    Give("plc") >>,                                  \* 1038
     add_callback |-> << Take("plc"),                                \* 1048
                         WritePLC("callbacks"),                      \* 1065
                         Give("plc") >>,                             \* 1067
     \* malloc fails: "if (! cb) return;"
     add_callback_nomem |-> << Take("plc") >>,                       \* 1048, 1062
     remove_callback |-> << Take("plc"),                             \* 1075
                            WritePLC("callbacks"),                   \* 1082
                            Give("plc") >>,                          \* 1087
     restart |-> << Take("registry"), Take("plc"),                   \* 1101, 1106
                    \* disconnect_PLC: EIP_shutdown
                    WritePLC("connection"),                          \* 414
                    \* disconnect_PLC: invalidate_PLC_tags
                    TryTake("tag", ""),                              \* 391
                    Write("valid_data_size", "tag"),                 \* 393
                    Give("tag"),                                     \* 394
                    Give("plc"), Give("registry") >>,                \* 1132, 1134
     report |-> << TryTake("registry", ""), TryTake("plc", ""),      \* 859, 887
                   \* dump_TagInfo
                   TryTake("tag", ""),                               \* 110
                   Read("valid_data_size", ""),                      \* 116
                   Read("do_write", ""),                             \* 117
                   Read("is_writing", ""),                           \* 119
                   Read("data", ""),                                 \* 124
                   Give("tag"),                                      \* 128
                   Give("plc"), Give("registry") >>,                 \* 905, 909
     dump |-> << Take("registry"), Take("plc"),                      \* 920, 924
                 Read("valid_data_size", ""),                        \* 933
                 Read("data", ""),                                   \* 934
                 Give("plc"), Give("registry") >>,                   \* 939, 941
     reset_statistics |-> << Take("registry"), Take("plc"),          \* 950, 954
                             Give("plc"), Give("registry") >>,       \* 960, 962
     \* PLC_scan_task, a pass in which assert_PLC_connect connects and fails
     scan_connect |-> << Take("plc"),                                \* 683
                         ReadPLC("connection"),                      \* 403
                         ReadPLC("ip_addr"),                         \* 405
                         ReadPLC("slot"),                            \* 406
                         WritePLC("connection"),                     \* 405
                         Give("plc") >>,                             \* 691
     \* PLC_scan_task, a pass that reads the tag
     scan_read |-> << Take("plc"),                                   \* 683
                      TryTake("tag", "scan_quit"),                   \* 447
                      Read("do_write", "tag"),                       \* 453
                      Give("tag"),                                   \* 464
                      Read("is_writing", ""),                        \* 535
                      TryTake("tag", "scan_error"),                  \* 606
                      Read("is_writing", "tag"),                     \* 612
                      Read("do_write", "tag"),                       \* 627
                      Write("data", "tag"),                          \* 639
                      Write("valid_data_size", "tag"),               \* 640
                      Give("tag"),                                   \* 661
                      Give("plc") >>,                                \* 729
     \* PLC_scan_task, a pass that writes the tag
     scan_write |-> << Take("plc"),                                  \* 683
                       TryTake("tag", "scan_quit"),                  \* 447
                       Read("do_write", "tag"),                      \* 453
                       Write("is_writing", "tag"),                   \* 455
                       Give("tag"),                                  \* 464
                       Read("is_writing", ""),                       \* 535
                       TryTake("tag", "scan_error"),                 \* 539
                       Read("data", "tag"),                          \* 548
                       Write("do_write", "tag"),                     \* 550
                       Give("tag"),                                  \* 551
                       TryTake("tag", "scan_error"),                 \* 606
                       Read("is_writing", "tag"),                    \* 612
                       Write("is_writing", "tag"),                   \* 621
                       Give("tag"),                                  \* 661
                       Give("plc") >>,                               \* 729
     \* PLC_scan_task, a pass whose transfer fails
     scan_fail |-> << Take("plc"),                                   \* 683
                      TryTake("tag", ""),                            \* 391
                      Write("valid_data_size", "tag"),               \* 393
                      Give("tag"),                                   \* 394
                      Give("plc") >>,                                \* 720
     \* determine_MultiRequest_count returned 0: the pass ends
     scan_quit |-> << Give("plc") >>,                                \* 729
     \* process_ScanList returned false: disconnect_PLC
     scan_error |-> << TryTake("tag", ""),                           \* 391
                       Write("valid_data_size", "tag"),              \* 393
                       Give("tag"),                                  \* 394
                       Give("plc") >>,                               \* 720
     \* device support: a record reads or writes the tag
     device_io |-> << Take("tag"), Read("data", "tag"), Write("data", "tag"),
                      Write("do_write", "tag"), Give("tag") >>]

\* The programs a task may start.
Callable(th) ==
    IF th = Worker THEN {"scan_connect", "scan_read", "scan_write", "scan_fail"}
    ELSE IF th = Device THEN {"device_io"}
    ELSE {"define_PLC", "find_PLC", "add_tag", "add_callback", "add_callback_nomem",
          "remove_callback", "restart", "report", "dump", "reset_statistics"}

Resting == [op |-> "none", pc |-> 0, have |-> {}]
Instr(th) == Program[thread[th].op][thread[th].pc]
At(th, kinds) == thread[th].op # "none" /\ Instr(th).do \in kinds

Sem(l) == IF l = "registry" THEN private_lock
          ELSE IF l = "plc" THEN plc_sem ELSE tag_sem

SetSem(l, s) ==
    /\ private_lock' = IF l = "registry" THEN s ELSE private_lock
    /\ plc_sem' = IF l = "plc" THEN s ELSE plc_sem
    /\ tag_sem' = IF l = "tag" THEN s ELSE tag_sem

\* The task goes on with the next instruction of op, or rests at its end.
GoOn(th, op, at, have) ==
    thread' = [thread EXCEPT ![th] =
                IF at > Len(Program[op]) THEN Resting
                ELSE [op |-> op, pc |-> at, have |-> have]]

RestOfStructure ==
    <<PLCs, scanlists, taginfo, call, calls_made, result, returned, asked, last_add,
      invoked, inserted, repeated>>

\* A task that is in no function of the driver calls one.
Begin(th) ==
    /\ thread[th].op = "none"
    /\ \E op \in Callable(th) :
        /\ op = "add_callback_nomem" => plc_sem.count < MaxLeaked
        /\ GoOn(th, op, 1, {})
    /\ UNCHANGED <<private_lock, plc_sem, tag_sem, RestOfStructure, driverVars, wireVars>>

\* semTake(lock, WAIT_FOREVER)
TakeStep(th) ==
    /\ At(th, {"take"})
    /\ CanTake(Sem(Instr(th).lock), th)
    /\ SetSem(Instr(th).lock, semTake(Sem(Instr(th).lock), th))
    /\ GoOn(th, thread[th].op, thread[th].pc + 1,
            thread[th].have \cup {Instr(th).lock})
    /\ UNCHANGED <<RestOfStructure, driverVars, wireVars>>

\* semTake(lock, EIP_SEM_TIMEOUT): taken, or given up while another task
\* holds the lock.
TryStep(th) ==
    /\ At(th, {"try"})
    /\ IF CanTake(Sem(Instr(th).lock), th)
       THEN /\ SetSem(Instr(th).lock, semTake(Sem(Instr(th).lock), th))
            /\ GoOn(th, thread[th].op, thread[th].pc + 1,
                    thread[th].have \cup {Instr(th).lock})
       ELSE /\ UNCHANGED <<private_lock, plc_sem, tag_sem>>
            /\ IF Instr(th).orelse # ""
               THEN GoOn(th, Instr(th).orelse, 1, thread[th].have)
               ELSE GoOn(th, thread[th].op, thread[th].pc + 1, thread[th].have)
    /\ UNCHANGED <<RestOfStructure, driverVars, wireVars>>

\* semGive(lock)
GiveStep(th) ==
    /\ At(th, {"give"})
    /\ IF Instr(th).needs \in thread[th].have
       THEN SetSem(Instr(th).lock, semGive(Sem(Instr(th).lock)))
       ELSE UNCHANGED <<private_lock, plc_sem, tag_sem>>
    /\ GoOn(th, thread[th].op, thread[th].pc + 1,
            thread[th].have \ {Instr(th).lock})
    /\ UNCHANGED <<RestOfStructure, driverVars, wireVars>>

\* The task is about to make the access of its instruction.
Accesses(th) ==
    /\ At(th, {"read", "write"})
    /\ Instr(th).needs = "" \/ Instr(th).needs \in thread[th].have

AccessStep(th) ==
    /\ At(th, {"read", "write", "plc_read", "plc_write"})
    /\ GoOn(th, thread[th].op, thread[th].pc + 1, thread[th].have)
    /\ UNCHANGED <<private_lock, plc_sem, tag_sem, RestOfStructure, driverVars, wireVars>>

Begins == \E th \in Threads : Begin(th)
Takes == \E th \in Threads : TakeStep(th)
Tries == \E th \in Threads : TryStep(th)
Gives == \E th \in Threads : GiveStep(th)
Access == \E th \in Threads : AccessStep(th)

\* All tasks are outside the driver and no semaphore is held.
InitLocks ==
    /\ InitDriver
    /\ OneTagPerList
    /\ WireIdle

NextLocks == Begins \/ Takes \/ Tries \/ Gives \/ Access

SpecLocks == InitLocks /\ [][NextLocks]_vars

TypeOK ==
    /\ pc \in {"none", "scan_loop", "lists", "process", "count", "counted", "build",
               "send", "response", "callbacks", "list_done", "sleep", "delay",
               "sleeping"}
    /\ consumer_lock \in Tags \cup {NoTag}
    /\ task_lock \in Tags \cup {NoTag}
    /\ \A t \in Tags : valid_data_size[t] <= data_size[t]

\* ------------------------------------------------------------ properties
\* The steps of (do_write, is_writing) of one tag.
PairSteps(t) == << <<do_write[t], is_writing[t]>>, <<do_write'[t], is_writing'[t]>> >>
PairChanges(t) == do_write'[t] # do_write[t] \/ is_writing'[t] # is_writing[t]
CycleSteps ==
    { << <<FALSE, FALSE>>, <<TRUE, FALSE>> >>,     \* device support requests a write
      << <<TRUE, FALSE>>, <<TRUE, TRUE>> >>,       \* driver notices the request
      << <<TRUE, TRUE>>, <<FALSE, TRUE>> >>,       \* driver sends it
      << <<FALSE, TRUE>>, <<FALSE, FALSE>> >> }    \* driver received the result
OverlapSteps ==
    { << <<FALSE, TRUE>>, <<TRUE, TRUE>> >>,       \* new request while one is in flight
      << <<TRUE, TRUE>>, <<TRUE, FALSE>> >> }      \* result received, new request waits

\* C1, as stated: from (0,0) the pair (do_write, is_writing) of a tag only
\* steps along (0,0)->(1,0)->(1,1)->(0,1)->(0,0); any other step of the model
\* leaves the pair as it is ((1,1)->(1,1) when the consumer reschedules).
C1_CycleOnly ==
    [][\A t \in Tags : PairChanges(t) => PairSteps(t) \in CycleSteps]_vars

\* C1, amended: the pair of a tag only steps along the cycle
\* (0,0)->(1,0)->(1,1)->(0,1)->(0,0), or from (0,1) to (1,1) when the consumer
\* requests a write while one is in flight, or from (1,1) to (1,0) when the
\* result of the write in flight arrives while the newer request waits.
C1_WriteStateSteps ==
    [][\A t \in Tags : PairChanges(t) =>
            PairSteps(t) \in CycleSteps \cup OverlapSteps]_vars

\* A write of a tag was built and sent, and the consumer has asked again.
C1_Witness ==
    \E t \in Tags : /\ pc = "send" /\ do_write[t] /\ is_writing[t]
                    /\ \E k \in 1..Len(request) : request[k].tag = t /\ request[k].write

\* The tag whose response item the response loop handles in this step.
HandlesItemOf(t) == pc = "response" /\ pc' = "callbacks" /\ task_lock' = t

\* The request item, if any, that this step places in the MultiRequest.
BuildsItem == pc = "build" /\ Len(request') = Len(request) + 1
BuiltItem == request'[Len(request')]

C4_NoValidDataWhileDisconnected ==
    ~sock => \A t \in Tags : valid_data_size[t] = 0

\* The PLC was disconnected while a consumer held the data_lock of a tag with
\* valid data, and the tag still has it.
C4_Witness ==
    \E t \in Tags : ~sock /\ consumer_lock = t /\ valid_data_size[t] > 0

\* C5, as stated: the step of PLC_scan_task that follows a failed
\* process_ScanList adds 1 to plc_errors and to the list's list_errors, sets
\* the list's scheduled_ticktime to now + timeout_ticks, leaves the PLC
\* disconnected with valid_data_size 0 on every tag, and goes to scan_loop.
C5_FailedTransfer ==
    [][pc = "list_done" /\ pc' # pc /\ ~transfer_ok =>
          /\ plc_errors' = plc_errors + 1
          /\ list_errors' = [list_errors EXCEPT ![list] = @ + 1]
          /\ scheduled_ticktime' =
                [scheduled_ticktime EXCEPT ![list] = now + timeout_ticks]
          /\ ~sock' /\ \A t \in Tags : valid_data_size'[t] = 0
          /\ pc' = "scan_loop" /\ ~plc_lock']_vars

\* The callbacks due for the first n items of the request, in order, each with
\* the tag's data_lock held.
RECURSIVE ExpectedCallbacks(_)
ExpectedCallbacks(n) ==
    IF n = 0 THEN <<>>
    ELSE ExpectedCallbacks(n - 1) \o
         [k \in 1..Len(TagCallbacks[request[n].tag]) |->
             [tag |-> request[n].tag, cb |-> TagCallbacks[request[n].tag][k],
              item |-> n - 1, locked |-> TRUE]]
CallbacksSeen ==
    [k \in 1..Len(callbacks_run) |->
        [tag |-> callbacks_run[k].tag, cb |-> callbacks_run[k].cb,
         item |-> callbacks_run[k].item, locked |-> callbacks_run[k].locked]]

\* C6, amended: the callbacks of a tag are invoked for every response item the
\* response loop handles, whatever became of the item (stored, empty or failed
\* read, read set aside, confirmed or failed write): once per registered
\* callback per item, in list order, after the item was dealt with and with the
\* tag's data_lock held; none is invoked before the MultiRequest response was
\* accepted, nor in a transfer that fails before that.
C6_CallbacksPerItem ==
    /\ pc \in {"response", "callbacks"} => CallbacksSeen = ExpectedCallbacks(i)
    /\ pc \in {"count", "counted", "build", "send"} => callbacks_run = <<>>
    /\ pc = "list_done" /\ stopped \in {"alloc", "wlock", "send", "noresponse", "status"}
          => callbacks_run = <<>>
    /\ \A k \in 1..Len(callbacks_run) : callbacks_run[k].status # "none"

\* C6, as stated: callbacks are invoked only for items that were stored (a read)
\* or confirmed (a write), and none in a transfer that failed.
C6_OnlyAfterSuccess ==
    /\ \A k \in 1..Len(callbacks_run) : callbacks_run[k].status \in {"stored", "written"}
    /\ pc = "list_done" /\ ~transfer_ok => callbacks_run = <<>>

\* Both items of a transfer of two tags were handled and all their callbacks ran.
C6_Witness ==
    /\ pc = "response" /\ i = 2 /\ count = 2
    /\ Len(callbacks_run) = Len(TagCallbacks[2]) + Len(TagCallbacks[3])

\* The tags of list l from position p on that the loops do not pass over.
Candidates(l, p) ==
    SelectSeq(SubSeq(TagsOf(l), p, Len(TagsOf(l))),
              LAMBDA t : cip_r_request_size[t] > 0)

\* Sums over the first n sizes determine_MultiRequest_count has tried.
RECURSIVE TriedRequests(_)
TriedRequests(n) == IF n = 0 THEN 0 ELSE TriedRequests(n - 1) + examined[n].req
RECURSIVE TriedResponses(_)
TriedResponses(n) == IF n = 0 THEN 0 ELSE TriedResponses(n - 1) + examined[n].resp
Fits(n) ==
    /\ CIP_MultiRequest_size(n, TriedRequests(n)) <= transfer_buffer_limit
    /\ CIP_MultiResponse_size(n, TriedResponses(n)) <= transfer_buffer_limit
\* The sizes tried are those of the candidates in order: the write sizes of a
\* tag whose do_write was set, its read sizes otherwise.
TriedInOrder ==
    /\ Len(examined) <= Len(Candidates(list, info_position))
    /\ \A k \in 1..Len(examined) :
          LET t == examined[k].tag IN
          /\ t = Candidates(list, info_position)[k]
          /\ examined[k].req = IF examined[k].write THEN cip_w_request_size[t]
                                                    ELSE cip_r_request_size[t]
          /\ examined[k].resp = IF examined[k].write THEN cip_w_response_size[t]
                                                     ELSE cip_r_response_size[t]
\* count is the largest number of leading candidates that fit.
LargestCount ==
    /\ count <= Len(Candidates(list, info_position))
    /\ Fits(count)
    /\ IF count < Len(Candidates(list, info_position))
       THEN Len(examined) = count + 1 /\ ~Fits(count + 1)
       ELSE Len(examined) = count
SizesReported ==
    /\ multi_request_size = CIP_MultiRequest_size(count, TriedRequests(count))
    /\ multi_response_size = CIP_MultiResponse_size(count, TriedResponses(count))

\* C7, as stated: the count returned is the largest number of leading tags with
\* non-zero read size whose MultiRequest and MultiResponse sizes both fit the
\* limit, and the sizes reported are those of that count.
C7_LargestCount ==
    pc = "counted" => TriedInOrder /\ LargestCount /\ SizesReported

\* C7, amended: unless the data_lock of a tag could not be taken, in which
\* case 0 is returned, the count returned is the largest number of leading
\* tags with non-zero read size whose MultiRequest and MultiResponse sizes
\* both fit the limit, and the sizes reported are those of that count whenever
\* at least one tag was tried.
C7_LargestCountUnlessLocked ==
    pc = "counted" =>
        /\ TriedInOrder
        /\ IF stopped = "nolock"
           THEN count = 0 /\ Len(examined) < Len(Candidates(list, info_position))
           ELSE /\ LargestCount
                /\ Len(examined) > 0 => SizesReported

\* Two of three tags fit a limit of 80 and the third was found not to.
C7_Witness ==
    /\ pc = "counted" /\ transfer_buffer_limit = 80
    /\ count = 2 /\ Len(examined) = 3 /\ stopped = "no"

RECURSIVE Flatten(_)
Flatten(ss) == IF ss = <<>> THEN <<>> ELSE Head(ss) \o Flatten(Tail(ss))
IsPrefix(a, b) == Len(a) <= Len(b) /\ \A k \in 1..Len(a) : a[k] = b[k]
ThreeOfThirty ==
    \A t \in Range(TagsOf(1)) :
        cip_r_request_size[t] = 30 /\ cip_r_response_size[t] = 30

\* C8, as stated: when process_ScanList returns true, the transfers of the pass
\* are consecutive slices of the list that together hold every tag with
\* non-zero read size exactly once.
C8_EveryTagScanned ==
    pc = "list_done" /\ transfer_ok => Flatten(slices) = Candidates(list, 1)

\* C8, amended: every transfer holds the next tags with non-zero read size in
\* list order, as many as fit the limit; when process_ScanList returns true the
\* transfers together hold every such tag exactly once, unless the pass ended
\* early because a data_lock could not be taken or the next tag alone does not
\* fit, and then they hold the tags before that one.  With a limit of 80 and
\* three tags of sizes 30 a complete pass is two tags, then one.
C8_Slices ==
    /\ pc = "send" =>
          /\ slices # <<>>
          /\ Len(slices[Len(slices)]) = count
          /\ \A k \in 1..count : slices[Len(slices)][k] = examined[k].tag
          /\ TriedInOrder /\ LargestCount
          /\ IsPrefix(Flatten(slices), Candidates(list, 1))
    /\ pc = "list_done" /\ transfer_ok =>
          /\ IsPrefix(Flatten(slices), Candidates(list, 1))
          /\ stopped \notin {"nolock", "nofit"} => Flatten(slices) = Candidates(list, 1)
    /\ pc = "list_done" /\ transfer_ok /\ list = 1 /\ stopped = "no"
       /\ transfer_buffer_limit = 80 /\ ThreeOfThirty
          => slices = << <<1, 2>>, <<3>> >>

\* A pass over three tags of sizes 30 under a limit of 80 has returned true.
C8_Witness ==
    /\ pc = "list_done" /\ transfer_ok /\ list = 1 /\ stopped = "no"
    /\ transfer_buffer_limit = 80 /\ ThreeOfThirty
    /\ Len(slices) = 2

\* C9: a tag whose cip_r_request_size is 0 is passed over by all three loops:
\* no size of it is tried, no request item is built for it, no response item
\* is applied to it (its data_lock is not taken, its valid_data_size, buffer
\* and is_writing stay as they are) and no callback of it is invoked; the
\* items of the other tags are numbered as if it were not in the list.
C9_SkipEmpty ==
    /\ \A t \in Tags : cip_r_request_size[t] = 0 =>
          /\ \A k \in 1..Len(examined) : examined[k].tag # t
          /\ \A k \in 1..Len(request) : request[k].tag # t
          /\ \A k \in 1..Len(callbacks_run) : callbacks_run[k].tag # t
          /\ task_lock # t
          /\ valid_data_size[t] = 0 /\ data[t] = NoValue /\ ~is_writing[t]
    /\ pc \in {"build", "send", "response", "callbacks"} =>
          /\ IsPrefix([k \in 1..Len(request) |-> request[k].tag],
                      Candidates(list, info_position))
          /\ \A k \in 1..Len(callbacks_run) :
                request[callbacks_run[k].item + 1].tag = callbacks_run[k].tag

\* The first tag of the list has no sizes, and the callbacks of the second
\* were invoked for item 0.
C9_Witness ==
    /\ pc = "response" /\ list = 1
    /\ cip_r_request_size[TagAt(1, 1)] = 0
    /\ callbacks_run # <<>>
    /\ callbacks_run[1].tag = TagAt(1, 2) /\ callbacks_run[1].item = 0

\* C10: a pass over a list starts only when the list is enabled and the tick
\* counter has reached its scheduled_ticktime, and it notes the tick it starts
\* at; after a pass that succeeded the list's scheduled_ticktime is that start
\* tick plus the period, whatever the tick counter is by then; after one that
\* failed it is the tick counter at that time plus timeout_ticks.
C10_Deadlines ==
    [][/\ pc = "lists" /\ pc' = "process" =>
              /\ enabled[list] /\ now >= scheduled_ticktime[list]
              /\ start_ticks' = now /\ list' = list
       /\ pc = "process" /\ pc' # "list_done" => start_ticks' = start_ticks
       /\ pc \notin {"lists", "process", "list_done"} /\ plc_lock /\ plc_lock' =>
              start_ticks' = start_ticks
       /\ pc = "list_done" /\ pc' = "lists" =>
              /\ transfer_ok
              /\ scheduled_ticktime' = [scheduled_ticktime EXCEPT
                                           ![list] = start_ticks + PeriodTicks[list]]
       /\ pc = "list_done" /\ pc' = "scan_loop" =>
              /\ ~transfer_ok
              /\ scheduled_ticktime' = [scheduled_ticktime EXCEPT
                                           ![list] = now + timeout_ticks]]_vars

\* A pass of the first list that started at tick 0 took two ticks and succeeded.
C10_Witness ==
    /\ pc = "lists" /\ list = 2 /\ now = 2
    /\ scheduled_ticktime[1] = PeriodTicks[1]

\* C11, as stated: the sleep the scan task asks for at the end of a pass is
\* never negative or wrapped and never ends after the earliest
\* scheduled_ticktime, whatever the tick counter does between the task's two
\* reads of it; when that time is already reached at the first read the task
\* does not sleep and counts a slow scan.
C11_SleepUntilDeadline ==
    [][/\ pc = "delay" /\ pc' = "sleeping" =>
              /\ wake' >= now
              /\ wake' <= IF now > next_schedule_ticks THEN now ELSE next_schedule_ticks
       /\ pc = "sleep" /\ pc' # pc /\ next_schedule_ticks > 0
          /\ now >= next_schedule_ticks =>
              slow_scans' = slow_scans + 1 /\ pc' = "scan_loop"]_vars

\* The tick counter passed the earliest scheduled_ticktime between the two
\* reads, and the scan task sleeps for a wrapped number of ticks.
C11_Witness ==
    pc = "sleeping" /\ wake = Never

\* C14: the scan task holds the data_lock of a tag only from the deposit of the
\* tag's response item to the end of its callbacks (the classification and the
\* build of a request take and give the lock within one step): never while a
\* frame is sent or awaited, never while the task sleeps or connects, and only
\* with plc->lock held.
C14_NoLockAcrossTransfer ==
    task_lock # NoTag =>
        /\ pc = "callbacks" /\ plc_lock /\ sock
        /\ task_lock = TagAt(list, info)
        /\ consumer_lock # task_lock

\* The response of a write was handled and the tag's callbacks are due, with
\* the tag's data_lock held by the scan task.
C14_Witness ==
    /\ pc = "callbacks" /\ task_lock \in OutputTags
    /\ item_status = "written" /\ consumer_lock = NoTag

\* A step of drvEtherIP_restart that changes anything.
IsRestartStep ==
    \/ restart_returned' # restart_returned
    \/ scan_task' # scan_task
    \/ sock /\ ~sock' /\ pc' = pc

\* C19, as stated: drvEtherIP_restart leaves the PLC disconnected and with a
\* running scan task; it spawns one only if none is alive and returns the
\* number it spawned (0 when the task is alive, 1 when it was spawned), and
\* it leaves a running scan task where it is.
C19_RestartEnsuresWorker ==
    [][IsRestartStep =>
          /\ ~sock' /\ sockets' = 0
          /\ scan_task'
          /\ restart_returned' = IF scan_task THEN 0 ELSE 1
          /\ scan_task => pc' = pc]_vars

\* drvEtherIP_restart has returned 1 and the PLC has no scan task.
C19_Witness ==
    restart_returned = 1 /\ ~scan_task /\ pc = "none"

\* The positions of the scan task at which it works on the connection.
InPass ==
    pc \in {"lists", "process", "count", "counted", "build", "send", "response",
            "callbacks", "list_done"}

PlacesIn(lists, t) ==
    {p \in UNION {{<<l, k>> : k \in 1..Len(lists[l].taginfos)} :
                      l \in 1..Len(lists)} :
        lists[p[1]].taginfos[p[2]] = t}

Places(t) == PlacesIn(scanlists, t)

\* C15: every TagInfo that drvEtherIP_add_tag has returned to a caller is
\* linked into exactly one scan list of the PLC, once, and its scanlist
\* back-reference names that list, whatever allocations have failed.
C15_ReturnedTagOnOneList ==
    \A t \in returned :
        /\ Cardinality(Places(t)) = 1
        /\ \A p \in Places(t) : taginfo[t].scanlist = p[1]

\* A TagInfo a caller holds is on no scan list: the call that was to move it
\* to a shorter period could not create the list.
C15_Witness ==
    \E t \in returned :
        /\ Places(t) = {}
        /\ taginfo[t].scanlist = 0
        /\ \E c \in Callers : result[c] = 0 /\ call[c].op = "idle"
        /\ ~asked[taginfo[t].string_tag].ok

\* TagInfos of that name that are linked into a scan list.
Listed(n) ==
    {t \in 1..Len(taginfo) : taginfo[t].string_tag = n /\ Places(t) # {}}

\* A step in which caller c returns from drvEtherIP_add_tag.
AddTagReturns(c) == call[c].op = "add_tag" /\ call'[c].op = "idle"

\* C16: while every drvEtherIP_add_tag for a name has returned a TagInfo, the
\* one TagInfo of that name is on the scan list whose period is the least
\* period asked for and its elements is the largest count asked for; a call
\* with a shorter period than that of the tag's list puts the tag on the list
\* of exactly the period of the call, a call with an equal or longer period
\* leaves every scan list as it is.
C16_MinPeriodMaxElements ==
    /\ [](\A n \in TagNames : asked[n].ok /\ asked[n].period # 0 =>
            /\ Cardinality(Listed(n)) = 1
            /\ \A t \in Listed(n) :
                /\ taginfo[t].scanlist # 0
                /\ scanlists[taginfo[t].scanlist].period = asked[n].period
                /\ taginfo[t].elements = asked[n].elements)
    /\ [][\A c \in Callers :
            AddTagReturns(c) /\ call[c].info # 0 /\ result'[c] # 0 =>
                LET t == call[c].info
                    was == scanlists[taginfo[t].scanlist].period IN
                IF call[c].period < was
                THEN /\ taginfo'[t].scanlist # 0
                     /\ scanlists'[taginfo'[t].scanlist].period = call[c].period
                     /\ PlacesIn(scanlists', t) =
                            {<<taginfo'[t].scanlist,
                               Len(scanlists'[taginfo'[t].scanlist].taginfos)>>}
                ELSE scanlists' = scanlists /\ taginfo'[t].scanlist = taginfo[t].scanlist
         ]_vars

\* The only tag was created on the 2 s list and a later call moved it to the
\* 1 s list; a call asked for 2 elements.
C16_Witness ==
    /\ Len(taginfo) = 1 /\ Len(scanlists) = 2
    /\ scanlists[1].period = 2 /\ scanlists[1].taginfos = <<>>
    /\ scanlists[2].period = 1 /\ scanlists[2].taginfos = <<1>>
    /\ taginfo[1].scanlist = 2 /\ taginfo[1].elements = 2
    /\ asked[taginfo[1].string_tag] = [period |-> 1, elements |-> 2, ok |-> TRUE]
    /\ \A c \in Callers : call[c].op = "idle"

\* Registry entries of that name.
Entries(registry, n) == {k \in 1..Len(registry) : registry[k].name = n}

\* TagInfos of that name linked into one of the lists.
ListedIn(lists, tags, n) ==
    {t \in 1..Len(tags) : tags[t].string_tag = n /\ PlacesIn(lists, t) # {}}

\* C17: no two registry entries have the same name and no two TagInfos on
\* the scan lists have the same string_tag; a drvEtherIP_define_PLC that
\* returns true for a name that has an entry adds no entry and changes only
\* ip_addr and slot of that entry; a drvEtherIP_add_tag that returns a TagInfo
\* and repeats the (tag, elements, period) of the call before it for that
\* tag, which returned a TagInfo, returns the same TagInfo.  The callers are
\* two tasks whose calls interleave.
C17_Idempotent ==
    /\ [](/\ \A n \in PLCNames : Cardinality(Entries(PLCs, n)) <= 1
          /\ \A n \in TagNames : Cardinality(ListedIn(scanlists, taginfo, n)) <= 1)
    /\ [][\A c \in Callers :
            /\ call[c].op = "define_PLC" /\ call'[c].op = "idle" /\ result'[c] = 1 =>
                /\ Cardinality(Entries(PLCs', call[c].name)) = 1
                /\ \A k \in Entries(PLCs, call[c].name) :
                    /\ Len(PLCs') = Len(PLCs)
                    /\ \A j \in 1..Len(PLCs) : j # k => PLCs'[j] = PLCs[j]
                    /\ PLCs'[k].name = call[c].name
                    /\ PLCs'[k].slot = call[c].addr[2]
                    /\ PLCs'[k].ip_addr \in {call[c].addr[1], NoAddr}
            /\ AddTagReturns(c) /\ result'[c] # 0
                  /\ last_add[call[c].name] =
                        [period |-> call[c].period, elements |-> call[c].elements,
                         info |-> last_add[call[c].name].info]
                  /\ last_add[call[c].name].info # 0 =>
                /\ result'[c] = last_add[call[c].name].info
                /\ ListedIn(scanlists', taginfo', call[c].name) = {result'[c]}
                /\ Len(taginfo') = Len(taginfo)
         ]_vars

\* Both interface functions have returned from a repeated call; there is one
\* PLC, with the second address, and one tag.
C17_Witness ==
    /\ repeated = {"define_PLC", "add_tag"}
    /\ Len(PLCs) = 1 /\ PLCs[1].ip_addr = "10.0.0.2" /\ PLCs[1].slot = 1
    /\ Len(taginfo) = 1 /\ returned = {1}
    /\ result = <<1, 1>>
    /\ calls_made = 4

NoDuplicates(seq) == \A j, k \in 1..Len(seq) : seq[j] = seq[k] => j = k

\* seq lists its elements in the order in which they occur in ref.
InOrderOf(seq, ref) ==
    \A j, k \in 1..Len(seq) : j < k =>
        \E m, n \in 1..Len(ref) : m < n /\ ref[m] = seq[j] /\ ref[n] = seq[k]

Without(seq, x) ==
    LET Other(e) == e # x IN SelectSeq(seq, Other)

\* What drvEtherIP_add_callback and drvEtherIP_remove_callback do to the
\* callbacks of the tags in the step in which they return.
CallbackCallsAsSet ==
    \A c \in Callers :
        LET t == call[c].info
            pair == call[c].pair
            present == pair \in Range(taginfo[t].callbacks) IN
        /\ call[c].op = "add_callback" /\ call'[c].op = "idle" =>
            IF present THEN taginfo' = taginfo
            ELSE \/ taginfo' = taginfo
                 \/ taginfo' = [taginfo EXCEPT ![t].callbacks = Append(@, pair)]
        /\ call[c].op = "remove_callback" /\ call'[c].op = "idle" =>
            IF present
            THEN taginfo' = [taginfo EXCEPT ![t].callbacks = Without(@, pair)]
            ELSE taginfo' = taginfo

\* C18: no pair is twice among the callbacks of a tag; registering a pair
\* that is present changes nothing, unregistering removes that pair and
\* nothing else, unregistering an absent pair changes nothing; the scan task
\* calls the pairs that are present, in the order in which each was inserted
\* for the first time.
C18_FirstInsertionOrder ==
    /\ [](\A t \in 1..Len(taginfo) : NoDuplicates(taginfo[t].callbacks))
    /\ [][/\ CallbackCallsAsSet
          /\ invoked' # invoked =>
                /\ Range(invoked'.pairs) = Range(taginfo[invoked'.info].callbacks)
                /\ InOrderOf(invoked'.pairs, inserted[invoked'.info].first)
         ]_vars

\* C18 with the order of invocation as the code has it: the order of the
\* insertions that made the pairs present, so that a pair that was
\* unregistered and registered again is called after the pairs that stayed.
C18_LatestInsertionOrder ==
    /\ [](\A t \in 1..Len(taginfo) : NoDuplicates(taginfo[t].callbacks))
    /\ [][/\ CallbackCallsAsSet
          /\ invoked' # invoked =>
                /\ Range(invoked'.pairs) = Range(taginfo[invoked'.info].callbacks)
                /\ NoDuplicates(invoked'.pairs)
                /\ InOrderOf(invoked'.pairs, inserted[invoked'.info].latest)
         ]_vars

\* The scan task has called cb2 before cb1 on a tag on which cb1 was
\* registered first: cb1 was unregistered and registered again.
C18_Witness ==
    /\ invoked.info # 0
    /\ invoked.pairs = <<"cb2", "cb1">>
    /\ inserted[invoked.info].first = <<"cb1", "cb2">>
    /\ inserted[invoked.info].latest = <<"cb2", "cb1">>
    /\ taginfo[invoked.info].callbacks = <<"cb2", "cb1">>

\* ------------------------------------------------------------ locks: properties
\* registry > plc > tag
Rank(l) == IF l = "registry" THEN 3 ELSE IF l = "plc" THEN 2 ELSE 1

Held(th) == {l \in Locks : Sem(l).owner = th}

\* Task a waits, without a timeout, for a lock that task b holds.
WaitsFor(a, b) ==
    /\ a # b
    /\ At(a, {"take"})
    /\ Sem(Instr(a).lock).owner = b

\* C12: a task that calls semTake for a lock holds no lock of a lower rank
\* (registry > plc > tag), and there is no set of tasks each of which waits
\* for a lock that another task of the set holds.
C12_LockOrder ==
    /\ \A th \in Threads : At(th, {"take", "try"}) =>
            \A l \in Held(th) : Rank(l) >= Rank(Instr(th).lock)
    /\ ~\E waiting \in SUBSET Threads :
            /\ waiting # {}
            /\ \A a \in waiting : \E b \in waiting : WaitsFor(a, b)

\* One caller of the interface, which holds plc->lock since a
\* drvEtherIP_add_callback that found no memory, waits for the registry lock;
\* the other, in drvEtherIP_restart, holds the registry lock and waits for
\* plc->lock.
C12_Witness ==
    /\ WaitsFor(1, 2) /\ WaitsFor(2, 1)
    /\ thread[2].op = "restart" /\ Instr(2).lock = "plc"
    /\ Instr(1).lock = "registry" /\ Held(1) = {"plc"}

\* C13: a task that reads or writes data, valid_data_size, do_write or
\* is_writing of the tag holds the data_lock of the tag.
C13_AccessUnderDataLock ==
    \A th \in Threads : Accesses(th) => tag_sem.owner = th

\* The scan task reads is_writing while it builds the request (line 535)
\* and the data_lock is held by device support, not by the scan task.
C13_Witness ==
    /\ Accesses(Worker)
    /\ thread[Worker].op = "scan_write"
    /\ Instr(Worker) = Read("is_writing", "")
    /\ tag_sem.owner = Device
\* ---------------------------------------------------------------------
\* ether_ip.c: the CIP MultiRequest under construction.
\* mr_bytes[1] is the byte `countp` points at: the count field takes
\* bytes 1..2, offset[i] takes bytes 3+2i .. 4+2i.

MaxCount == 3
MaxItemCalls == 4
MaxPrepares == 2
ItemSizes == {12, 286}
MR_Fields == 2 + 2 * MaxCount
StaleBytes == {[k \in 1..MR_Fields |-> 0], [k \in 1..MR_Fields |-> 255]}

\* little endian, 16 bits kept
pack_UINT(buffer, at, val) ==
    [buffer EXCEPT ![at] = val % 256, ![at + 1] = (val \div 256) % 256]

unpack_UINT(buffer, at) == buffer[at] + 256 * buffer[at + 1]

RECURSIVE ClearOffsets(_, _, _)
ClearOffsets(buffer, n, cnt) ==
    IF n >= cnt THEN buffer
    ELSE ClearOffsets(pack_UINT(buffer, 3 + 2 * n, 0), n + 1, cnt)

\* Fault: offset[0] that forgets the count field.
OffsetsOnly(cnt) == cnt * 2

FirstOffset(cnt) == (cnt + 1) * 2

prepare_CIP_MultiRequest(cnt) ==
    /\ mr_round < MaxPrepares
    /\ mr_round' = mr_round + 1
    /\ mr_bytes' = ClearOffsets(
           pack_UINT(pack_UINT(mr_bytes, 1, cnt), 3, FirstOffset(cnt)),
           1, cnt)
    /\ mr_calls' = <<>>
    /\ UNCHANGED <<fnVars, sessVars, liveVars, driverVars, structVars, threadVars>>

\* Fault: an item accepted whatever its offset field holds.
AnyOffset(offset) == TRUE

Deposited(offset) == offset # 0

\* the value returned: the item's distance from countp, 0 for the null pointer
CIP_MultiRequest_item(request_no, single_request_size) ==
    LET cnt == unpack_UINT(mr_bytes, 1)
        offset == IF request_no >= cnt THEN 0
                  ELSE unpack_UINT(mr_bytes, 3 + 2 * request_no)
        next_no == (request_no + 1) % 65536
        ok == request_no < cnt /\ Deposited(offset)
    IN  /\ Len(mr_calls) < MaxItemCalls
        /\ mr_round > 0
        /\ mr_bytes' =
             IF ok /\ next_no < cnt
             THEN pack_UINT(mr_bytes, 3 + 2 * next_no,
                            offset + single_request_size)
             ELSE mr_bytes
        /\ mr_calls' = Append(mr_calls,
             [no |-> request_no, size |-> single_request_size,
              ok |-> ok, item |-> IF ok THEN offset ELSE 0])
        /\ UNCHANGED <<mr_round, fnVars, sessVars, liveVars, driverVars, structVars, threadVars>>

Prepare == \E cnt \in 1..MaxCount : prepare_CIP_MultiRequest(cnt)
Item == \E no \in 0..MaxCount, size \in ItemSizes : CIP_MultiRequest_item(no, size)

InitMulti ==
    /\ InitDriver
    /\ ConfiguredStructure
    /\ mr_bytes \in StaleBytes
    /\ mr_calls = <<>>
    /\ mr_round = 0
    /\ FnIdle /\ SessIdle /\ LiveIdle

NextMulti == Prepare \/ Item

SpecMulti == InitMulti /\ [][NextMulti]_vars

Prepared == mr_round > 0
InOrder == \A k \in 1..Len(mr_calls) : mr_calls[k].no = k - 1

RECURSIVE SizesBefore(_)
SizesBefore(n) == IF n = 0 THEN 0 ELSE mr_calls[n].size + SizesBefore(n - 1)

MR_Header == 2 + CIA_path_size(0) * 2

C21_LayoutState ==
    (Prepared /\ InOrder /\ Len(mr_calls) <= unpack_UINT(mr_bytes, 1)) =>
        LET N == unpack_UINT(mr_bytes, 1)
            done == Len(mr_calls)
        IN  /\ \A k \in 0..(N - 1) : k <= done =>
                  unpack_UINT(mr_bytes, 3 + 2 * k) = 2 * (N + 1) + SizesBefore(k)
            /\ \A k \in 0..(done - 1) :
                  /\ mr_calls[k + 1].ok
                  /\ mr_calls[k + 1].item = 2 * (N + 1) + SizesBefore(k)
            /\ done = N =>
                  MR_Header + mr_calls[N].item + mr_calls[N].size
                      = CIP_MultiRequest_size(N, SizesBefore(N))

C21_Refused ==
    \A no \in 0..MaxCount :
        (/\ Prepared
         /\ Len(mr_calls') = Len(mr_calls) + 1
         /\ mr_calls'[Len(mr_calls')].no = no
         /\ \/ no >= unpack_UINT(mr_bytes, 1)
            \/ no > 0 /\ ~ \E k \in 1..Len(mr_calls) :
                             mr_calls[k].no = no - 1 /\ mr_calls[k].ok)
        => /\ ~ mr_calls'[Len(mr_calls')].ok
           /\ mr_calls'[Len(mr_calls')].item = 0
           /\ mr_bytes' = mr_bytes

\* C21: after prepare_CIP_MultiRequest(N) and the items 0..N-1 in ascending
\* order, offset[i] = 2*(N+1) + the sizes of the items before i, item i is
\* placed at that offset and the request is CIP_MultiRequest_size(N, sum of
\* sizes) bytes long; an item whose predecessor was not deposited, or whose
\* index is >= N, is refused and no offset changes.
C21_MultiRequestLayout == [] C21_LayoutState /\ [][C21_Refused]_vars

C21_Witness ==
    /\ Prepared /\ InOrder
    /\ unpack_UINT(mr_bytes, 1) = MaxCount
    /\ Len(mr_calls) = MaxCount
    /\ mr_calls[1].size # mr_calls[2].size

\* ---------------------------------------------------------------------
\* ether_ip.c: tag strings.  A string is a sequence of characters.

MaxTagLen == 6
TagChars == {"a", "1", ".", "[", "]"}
DigitValue == ("1" :> 1) @@ ("5" :> 5)
Digits == DOMAIN DigitValue
TagStrings == UNION {[1..k -> TagChars] : k \in 0..MaxTagLen}

NULL == <<>>

\* length of the initial part of s that has none of the characters of reject
strcspn(s, reject) ==
    LET stops == {k \in 1..Len(s) : s[k] \in reject} IN
    IF stops = {} THEN Len(s)
    ELSE (CHOOSE k \in stops : \A j \in stops : k <= j) - 1

\* position of the first ch in s, 0 if there is none
strchr(s, ch) ==
    LET at == {k \in 1..Len(s) : s[k] = ch} IN
    IF at = {} THEN 0 ELSE CHOOSE k \in at : \A j \in at : k <= j

\* value of the digits s begins with, 0 if it begins with none
RECURSIVE atol_from(_, _)
atol_from(s, val) ==
    IF s = <<>> \/ Head(s) \notin Digits THEN val
    ELSE atol_from(Tail(s), val * 10 + DigitValue[Head(s)])

atol(s) == atol_from(s, 0)

\* The loop of EIP_parse_tag with the list tl built so far; an empty list
\* is the null pointer.
RECURSIVE parse_from(_, _)
parse_from(tag, tl) ==
    LET len == strcspn(tag, {".", "["})
        named == Append(tl, [type |-> "te_name", name |-> SubSeq(tag, 1, len)])
        rest == SubSeq(tag, len + 2, Len(tag))
        close == strchr(rest, "]")
    IN  IF len <= 0 THEN tl
        ELSE IF len = Len(tag) THEN named
        ELSE IF tag[len + 1] = "." THEN parse_from(rest, named)
        ELSE IF close = 0 THEN NULL
        ELSE parse_from(SubSeq(rest, close + 1, Len(rest)),
                        Append(named, [type |-> "te_element",
                                       element |-> atol(rest)]))

EIP_parse_tag(tag) == parse_from(tag, NULL)

\* new_TagInfo: whether it returns a TagInfo, given that its allocations do
new_TagInfo(string_tag, mem) == mem /\ EIP_parse_tag(string_tag) # NULL

\* drvEtherIP_add_tag(plc, 1, fn_in, 1) for a PLC without tags.
add_parsed_tag ==
    /\ fn_out = Unapplied
    /\ \E mem \in BOOLEAN, list_made \in BOOLEAN :
        LET cl == [Idle EXCEPT !.op = "add_tag", !.name = fn_in,
                               !.period = 1, !.elements = 1]
            out == add_tag_outcome(Structure, cl, list_made,
                                   new_TagInfo(fn_in, mem)) IN
        /\ scanlists' = out.S.scanlists
        /\ taginfo' = out.S.taginfo
        /\ fn_out' = [applied |-> TRUE, mem |-> mem,
                      tag |-> IF mem THEN EIP_parse_tag(fn_in) ELSE NULL,
                      info |-> out.info]
    /\ UNCHANGED <<PLCs, private_lock, plc_sem, call, calls_made, result, returned,
                   asked, last_add, invoked, inserted, repeated>>
    /\ UNCHANGED <<fn_in, multiVars, sessVars, liveVars, driverVars, threadVars>>

InitParse ==
    /\ InitDriver
    /\ OnePLC
    /\ MultiIdle /\ SessIdle /\ LiveIdle
    /\ fn_in \in TagStrings
    /\ fn_out = Unapplied

SpecParse == InitParse /\ [][add_parsed_tag]_vars

\* The grammar name ( '.' name | '[' uint32 ']' )*
IsName(s) == Len(s) > 0 /\ \A k \in 1..Len(s) : s[k] \notin {".", "[", "]"}
IsNumber(s) == Len(s) > 0 /\ \A k \in 1..Len(s) : s[k] \in Digits

RECURSIVE Suffixes(_)
Suffixes(s) ==
    \/ s = <<>>
    \/ /\ Len(s) > 1 /\ s[1] = "."
       /\ \E k \in 2..Len(s) :
            IsName(SubSeq(s, 2, k)) /\ Suffixes(SubSeq(s, k + 1, Len(s)))
    \/ /\ Len(s) > 2 /\ s[1] = "["
       /\ \E k \in 3..Len(s) :
            /\ IsNumber(SubSeq(s, 2, k - 1)) /\ s[k] = "]"
            /\ Suffixes(SubSeq(s, k + 1, Len(s)))

WellFormed(s) ==
    \E k \in 1..Len(s) : IsName(SubSeq(s, 1, k)) /\ Suffixes(SubSeq(s, k + 1, Len(s)))

NothingListed ==
    /\ taginfo = <<>>
    /\ \A l \in 1..Len(scanlists) : scanlists[l].taginfos = <<>>

\* C22: a tag string is parsed iff it is of the form
\* name ( '.' name | '[' uint32 ']' )*; for every other string EIP_parse_tag
\* returns no ParsedTag, drvEtherIP_add_tag returns no TagInfo and no tag
\* is put on a scan list.
C22_ExactlyTheGrammar ==
    fn_out.applied =>
        /\ ~ WellFormed(fn_in) =>
              fn_out.tag = NULL /\ fn_out.info = 0 /\ NothingListed
        /\ WellFormed(fn_in) /\ fn_out.mem => fn_out.tag # NULL

\* a trailing '.' is dropped and the tag is added under the name before it
C22_Witness ==
    /\ fn_in = <<"a", ".">>
    /\ fn_out.applied
    /\ fn_out.tag = <<[type |-> "te_name", name |-> <<"a">>]>>
    /\ fn_out.info # 0
    /\ ~ NothingListed

\* ---------------------------------------------------------------------
\* ether_ip.c: the path of a tag and the CIP_ReadData request.
\* A ParsedTag is the list EIP_parse_tag builds; a byte is 0..255.

Ascii ==
    ("F" :> 70) @@ ("r" :> 114) @@ ("e" :> 101) @@ ("d" :> 100) @@
    ("B" :> 66) @@ ("a" :> 97) @@ ("n" :> 110) @@ ("y" :> 121) @@
    ("W" :> 87) @@ ("i" :> 105) @@ ("l" :> 108) @@ ("m" :> 109) @@
    ("1" :> 49) @@ ("5" :> 53) @@ ("]" :> 93)

SomeNames == {<<"a">>, <<"a", "n">>, <<"a", "n", "d">>}
SomeElements == {0, 5, 255, 256, 65535, 65536, 2147483647}
SomeSegments ==
    {[type |-> "te_name", name |-> n] : n \in SomeNames}
    \cup {[type |-> "te_element", element |-> e] : e \in SomeElements}
MaxSegments == 3
SomeParsedTags ==
    {t \in UNION {[1..k -> SomeSegments] : k \in 1..MaxSegments} :
        t[1].type = "te_name"}

Fred_Barney_5_Wilma ==
    <<"F","r","e","d",".","B","a","r","n","e","y","[","5","]",".","W","i","l","m","a">>

ExampleStrings ==
    { Fred_Barney_5_Wilma,
      <<"F","r","e","d",".","B","a","r","n","e","y">>,
      <<"W","i","l","m","a","[","5","]">> }

memcpy(name) == [k \in 1..Len(name) |-> Ascii[name[k]]]

\* bytes a te_name or te_element node takes, as tag_path_size adds them up
segment_bytes(node) ==
    IF node.type = "te_name"
    THEN 2 + Len(node.name) + (Len(node.name) % 2)
    ELSE IF node.element <= 255 THEN 2
    ELSE IF node.element <= 65535 THEN 4
    ELSE 6

RECURSIVE tag_path_bytes(_)
tag_path_bytes(tag) ==
    IF tag = <<>> THEN 0 ELSE segment_bytes(Head(tag)) + tag_path_bytes(Tail(tag))

tag_path_size(tag) == tag_path_bytes(tag) \div 2

\* Fault: a name is never padded.
Unpadded(slen) == <<>>

Pad(slen) == IF slen % 2 # 0 THEN <<0>> ELSE <<>>

\* what make_tag_path writes for one node
make_segment(node) ==
    IF node.type = "te_name"
    THEN <<145, Len(node.name) % 256>> \o memcpy(node.name) \o Pad(Len(node.name))
    ELSE IF node.element <= 255
    THEN <<40, node.element>>
    ELSE IF node.element <= 65535
    THEN <<41, 0, node.element % 256, (node.element \div 256) % 256>>
    ELSE <<42, 0, node.element % 256, (node.element \div 256) % 256,
           (node.element \div 65536) % 256, (node.element \div 16777216) % 256>>

RECURSIVE make_tag_path(_)
make_tag_path(tag) ==
    IF tag = <<>> THEN <<>> ELSE make_segment(Head(tag)) \o make_tag_path(Tail(tag))

CIP_ReadData_size(tag) == 2 + 2 * tag_path_size(tag) + 2

make_MR_Request(service, path_size) == <<service, path_size % 256>>

make_CIP_ReadData(tag, elements) ==
    make_MR_Request("S_CIP_ReadData", tag_path_size(tag))
    \o make_tag_path(tag)
    \o <<elements % 256, (elements \div 256) % 256>>

\* make_CIP_ReadData for the tag of fn_in, as new_TagInfo parsed it
ReadData ==
    /\ fn_out = Unapplied
    /\ fn_out' = [applied |-> TRUE,
                  path |-> make_tag_path(fn_in.tag),
                  request |-> make_CIP_ReadData(fn_in.tag, 1),
                  words |-> tag_path_size(fn_in.tag),
                  size |-> CIP_ReadData_size(fn_in.tag)]
    /\ UNCHANGED <<fn_in, multiVars, sessVars, liveVars, driverVars, structVars, threadVars>>

InitPath ==
    /\ InitDriver
    /\ ConfiguredStructure
    /\ MultiIdle /\ SessIdle /\ LiveIdle
    /\ \/ \E t \in SomeParsedTags : fn_in = [string |-> <<>>, tag |-> t]
       \/ \E s \in ExampleStrings : fn_in = [string |-> s, tag |-> EIP_parse_tag(s)]
    /\ fn_out = Unapplied

SpecPath == InitPath /\ [][ReadData]_vars

\* the encoding of one segment as the EtherNet/IP path rules give it
NameSegment(name) ==
    <<145, Len(name)>> \o [k \in 1..Len(name) |-> Ascii[name[k]]]
    \o (IF Len(name) % 2 = 1 THEN <<0>> ELSE <<>>)

IndexSegment(index) ==
    IF index <= 255 THEN <<40, index>>
    ELSE IF index <= 65535 THEN <<41, 0, index % 256, index \div 256>>
    ELSE <<42, 0, index % 256, (index \div 256) % 256,
           (index \div 65536) % 256, index \div 16777216>>

RECURSIVE Encoded(_)
Encoded(tag) ==
    IF tag = <<>> THEN <<>>
    ELSE (IF Head(tag).type = "te_name" THEN NameSegment(Head(tag).name)
          ELSE IndexSegment(Head(tag).element))
         \o Encoded(Tail(tag))

\* the path of every ParsedTag is the segments' encodings in a row, an even
\* number of bytes, 2 * tag_path_size of them, in a request of
\* 2 + 2 * tag_path_size + 2 bytes
C23_PathOfParsedTag ==
    fn_out.applied =>
        /\ fn_out.path = Encoded(fn_in.tag)
        /\ Len(fn_out.path) % 2 = 0
        /\ Len(fn_out.path) = 2 * fn_out.words
        /\ fn_out.size = 2 + 2 * fn_out.words + 2
        /\ Len(fn_out.request) = fn_out.size

FredBarney5Wilma ==
    <<145, 4, 70, 114, 101, 100, 145, 6, 66, 97, 114, 110, 101, 121,
      40, 5, 145, 5, 87, 105, 108, 109, 97, 0>>

\* C23: make_tag_path writes 0x91, len, the name and a zero pad byte iff len
\* is odd for a name, 0x28 / 0x29 0x00 / 0x2A 0x00 and 1 / 2 / 4 little-endian
\* bytes for an index; the path has an even number of bytes, 2 *
\* tag_path_size, the read request 2 + 2 * tag_path_size + 2; and
\* Fred.Barney[5].Wilma is sent as
\* 91 04 Fred 91 06 Barney 28 05 91 05 Wilma 00.
C23_TagPath ==
    /\ C23_PathOfParsedTag
    /\ fn_out.applied /\ fn_in.string = Fred_Barney_5_Wilma
        => fn_out.path = FredBarney5Wilma

\* Fred.Barney[5].Wilma sent as the path of Fred.Barney[5]
C23_Witness ==
    /\ fn_out.applied
    /\ fn_in.string = Fred_Barney_5_Wilma
    /\ fn_out.path = <<145, 4, 70, 114, 101, 100, 145, 6, 66, 97, 114, 110, 101, 121, 40, 5>>
    /\ fn_out.size = 20

\* ---------------------------------------------------------------------
\* ether_ip.c: unpack.  The cursor is the distance of `buffer` from where
\* the call found it; the bytes under it are Received.

MaxFormat == 4
FormatChars == {"s", "S", "i", "I", "d", "D", "r", "R", "x"}
Formats == UNION {[1..k -> FormatChars] : k \in 0..MaxFormat}
Received == [k \in 1..(8 * MaxFormat) |-> (37 * k) % 256]

\* unpack_UINT, unpack_UDINT: value and the cursor they return
unpack_UINT_at(at) ==
    [val |-> Received[at + 1] + 256 * Received[at + 2], buffer |-> at + 2]

unpack_UDINT_at(at) ==
    [val |-> <<Received[at + 1], Received[at + 2], Received[at + 3], Received[at + 4]>>,
     buffer |-> at + 4]

\* unpack_REAL: four "*buffer++", then "return buffer + 4"
unpack_REAL(at, is_little_endian) ==
    [val |-> IF is_little_endian
             THEN <<Received[at + 1], Received[at + 2], Received[at + 3], Received[at + 4]>>
             ELSE <<Received[at + 4], Received[at + 3], Received[at + 2], Received[at + 1]>>,
     buffer |-> (at + 4) + 4]

\* the while loop of unpack from the position `at` on, with the values
\* assigned through the variable arguments so far
RECURSIVE unpack_from(_, _, _, _)
unpack_from(format, at, vals, is_little_endian) ==
    IF format = <<>> THEN [ok |-> TRUE, buffer |-> at, vals |-> vals]
    ELSE LET ch == Head(format)
             rest == Tail(format)
             vi == unpack_UINT_at(at)
             vd == unpack_UDINT_at(at)
             vr == unpack_REAL(at, is_little_endian) IN
         IF ch = "s" THEN unpack_from(rest, at + 1, Append(vals, Received[at + 1]), is_little_endian)
         ELSE IF ch = "S" THEN unpack_from(rest, at + 1, vals, is_little_endian)
         ELSE IF ch = "i" THEN unpack_from(rest, vi.buffer, Append(vals, vi.val), is_little_endian)
         ELSE IF ch = "I" THEN unpack_from(rest, at + 2, vals, is_little_endian)
         ELSE IF ch = "d" THEN unpack_from(rest, vd.buffer, Append(vals, vd.val), is_little_endian)
         ELSE IF ch = "D" THEN unpack_from(rest, at + 4, vals, is_little_endian)
         ELSE IF ch = "r" THEN unpack_from(rest, vr.buffer, Append(vals, vr.val), is_little_endian)
         ELSE IF ch = "R" THEN unpack_from(rest, at + 4, vals, is_little_endian)
         ELSE [ok |-> FALSE, buffer |-> 0, vals |-> vals]

unpack(format, is_little_endian) == unpack_from(format, 0, <<>>, is_little_endian)

Unpack ==
    /\ fn_out = Unapplied
    /\ \E is_little_endian \in BOOLEAN :
        LET out == unpack(fn_in, is_little_endian) IN
        fn_out' = [applied |-> TRUE, ok |-> out.ok, buffer |-> out.buffer,
                   vals |-> Len(out.vals)]
    /\ UNCHANGED <<fn_in, multiVars, sessVars, liveVars, driverVars, structVars, threadVars>>

InitUnpack ==
    /\ InitDriver
    /\ ConfiguredStructure
    /\ MultiIdle /\ SessIdle /\ LiveIdle
    /\ fn_in \in Formats
    /\ fn_out = Unapplied

SpecUnpack == InitUnpack /\ [][Unpack]_vars

Width(ch) ==
    IF ch \in {"s", "S"} THEN 1
    ELSE IF ch \in {"i", "I"} THEN 2
    ELSE 4

RECURSIVE Widths(_)
Widths(format) ==
    IF format = <<>> THEN 0 ELSE Width(Head(format)) + Widths(Tail(format))

Known(format) ==
    \A k \in 1..Len(format) : format[k] \in {"s", "S", "i", "I", "d", "D", "r", "R"}

\* C24: unpack moves its cursor by 1 for s and S, 2 for i and I, 4 for d and
\* D, 4 for r and R, so that after a format string the cursor is the start
\* plus the sum of these widths; a format string with any other character
\* returns no cursor.
C24_SameWidthReadAndSkip ==
    fn_out.applied =>
        IF Known(fn_in)
        THEN fn_out.ok /\ fn_out.buffer = Widths(fn_in)
        ELSE ~ fn_out.ok

\* 'r' alone leaves the cursor 8 bytes on
C24_Witness ==
    /\ fn_in = <<"r">>
    /\ fn_out.applied /\ fn_out.ok
    /\ fn_out.buffer = 8

\* ---------------------------------------------------------------------
\* ether_ip.c: CM_Unconnected_Send.  Service and class codes are kept by
\* name.

MaxMessage == 60
Budgets == 0..600 \cup {245760, 8355839, 8355840, 8355841, 2147483647}
TickBudgetLimit == 8355840
SendBudget == 245760

\* the while loop of calc_tick_time
RECURSIVE halve(_, _)
halve(millisec, tick_time) ==
    IF millisec > 255 THEN halve(millisec \div 2, (tick_time + 1) % 256)
    ELSE [ok |-> TRUE, tick_time |-> tick_time, ticks |-> millisec]

calc_tick_time(millisec) ==
    IF millisec > TickBudgetLimit THEN [ok |-> FALSE, tick_time |-> 0, ticks |-> 0]
    ELSE halve(millisec, 0)

port_path_size == 1
make_port_path(port, link) == <<port, link>>

make_CIA_path(cls, instance, attr) ==
    <<32, cls, 36, instance>> \o (IF attr # 0 THEN <<48, attr>> ELSE <<>>)

MR_Request_size(path_size) == 2 + path_size * 2

\* Fault: room for the message as it is.
AsIs(message_size) == message_size

\* "message_size + message_size%2"
Padded(message_size) == message_size + (message_size % 2)

CM_Unconnected_Send_size(message_size) ==
    MR_Request_size(CIA_path_size(0)) + 1 + 1 + 2 + Padded(message_size) + 4

\* What make_CM_Unconnected_Send writes before the nested request, how many
\* bytes it leaves for the nested request, and what it writes behind them.
make_CM_Unconnected_Send(message_size) ==
    LET tt == calc_tick_time(SendBudget) IN
    [before |-> make_MR_Request("S_CM_Unconnected_Send", CIA_path_size(0))
                \o make_CIA_path("C_ConnectionManager", 1, 0)
                \o <<tt.tick_time, tt.ticks>>
                \o <<message_size % 256, (message_size \div 256) % 256>>,
     nested |-> Padded(message_size),
     behind |-> <<port_path_size, 0>> \o make_port_path(1, 0)]

UnconnectedSend ==
    /\ fn_out = Unapplied
    /\ fn_in.fn = "make_CM_Unconnected_Send"
    /\ fn_out' = [applied |-> TRUE,
                  request |-> make_CM_Unconnected_Send(fn_in.message_size),
                  size |-> CM_Unconnected_Send_size(fn_in.message_size)]
    /\ UNCHANGED <<fn_in, multiVars, sessVars, liveVars, driverVars, structVars, threadVars>>

CalcTickTime ==
    /\ fn_out = Unapplied
    /\ fn_in.fn = "calc_tick_time"
    /\ fn_out' = [applied |-> TRUE, tick |-> calc_tick_time(fn_in.millisec)]
    /\ UNCHANGED <<fn_in, multiVars, sessVars, liveVars, driverVars, structVars, threadVars>>

InitSend ==
    /\ InitDriver
    /\ ConfiguredStructure
    /\ MultiIdle /\ SessIdle /\ LiveIdle
    /\ \/ \E m \in 0..MaxMessage :
            fn_in = [fn |-> "make_CM_Unconnected_Send", message_size |-> m]
       \/ \E ms \in Budgets : fn_in = [fn |-> "calc_tick_time", millisec |-> ms]
    /\ fn_out = Unapplied

NextSend == UnconnectedSend \/ CalcTickTime

SpecSend == InitSend /\ [][NextSend]_vars

RECURSIVE TwoTo(_)
TwoTo(n) == IF n = 0 THEN 1 ELSE 2 * TwoTo(n - 1)

SentSend == fn_out.applied /\ fn_in.fn = "make_CM_Unconnected_Send"

\* everything of the request but its last bytes, and calc_tick_time
SendButRoute ==
    /\ SentSend =>
        LET r == fn_out.request
            m == fn_in.message_size IN
        /\ Len(r.before) + r.nested + Len(r.behind) = fn_out.size
        /\ SubSeq(r.before, 2, 6) = <<2, 32, "C_ConnectionManager", 36, 1>>
        /\ r.before[8] <= 255
        /\ r.before[8] = SendBudget \div TwoTo(r.before[7])
        /\ TwoTo(r.before[7]) * r.before[8] <= SendBudget
        /\ r.before[9] + 256 * r.before[10] = m
        /\ r.nested >= m /\ r.nested % 2 = 0 /\ r.nested <= m + 1
    /\ fn_out.applied /\ fn_in.fn = "calc_tick_time" /\ fn_out.tick.ok =>
        /\ fn_out.tick.ticks <= 255
        /\ fn_out.tick.ticks = fn_in.millisec \div TwoTo(fn_out.tick.tick_time)

\* C25: make_CM_Unconnected_Send writes CM_Unconnected_Send_size(m) bytes:
\* the path of the ConnectionManager, instance 1, a tick pair with
\* ticks <= 255, ticks = 245760 >> tick_time and 2^tick_time * ticks <=
\* 245760, the size m, room for the message padded to an even length, and
\* last the route 01 00 20 02 24 01; calc_tick_time gives ticks <= 255 for
\* every budget it accepts.
C25_RouteToMessageRouter ==
    /\ SendButRoute
    /\ SentSend =>
        /\ Len(fn_out.request.behind) = 6
        /\ fn_out.request.behind = <<1, 0, 32, "C_MessageRouter", 36, 1>>

\* C25 as the code has it: the last four bytes are the size of the port
\* path in words, a reserved 0, port 1 and link 0.
C25_PortPathOnly ==
    /\ SendButRoute
    /\ SentSend => fn_out.request.behind = <<1, 0, 1, 0>>

C25_Witness ==
    /\ SentSend
    /\ fn_in.message_size = 13
    /\ fn_out.size = 28
    /\ fn_out.request.nested = 14
    /\ fn_out.request.before[7] = 10 /\ fn_out.request.before[8] = 240

\* ---------------------------------------------------------------------
\* ether_ip.c: one EIPConnection, from EIP_startup to EIP_shutdown, and
\* the frames that pass.  The target and the network are free in what
\* they answer.

MaxConnects == 2
SessionIds == {7, 9}
ServiceFlags == {0, 32, 288}
ServiceLists == UNION {[1..k -> ServiceFlags] : k \in 0..2}
StartupOrder == <<"connect", "list", "register", "identity">>
ProbedTag == << <<[type |-> "te_name", name |-> <<"a">>]>>,
                <<[type |-> "te_name", name |-> <<"a", "n">>],
                  [type |-> "te_element", element |-> 5]>> >>

\* EIP_send_connection_buffer + EIP_read_connection_buffer: nothing comes
\* back, or a frame with some header
Headers(sent) ==
    {[command |-> cmd, status |-> st] : cmd \in {sent, "EC_Nop"}, st \in {0, 100}}

\* make_EncapsulationHeader: command and c->session, with what the target
\* has assigned on this connection
Frame(command) == [command |-> command, session |-> c_session, assigned |-> assigned]

ReceivedFrame(sent, header, used) ==
    [command |-> header.command, sent |-> sent, status |-> header.status,
     used |-> used]

\* "reply.header.command != EC_... || reply.header.status != 0x0"
InvalidResponse(sent, header) == header.command # sent \/ header.status # 0

\* "reply.service.flags & (1<<5)"
CIP_PDU(flags) == (flags \div 32) % 2 = 1

\* the loop of EIP_list_services over the services of the reply
ServicesOk(services) == \A k \in 1..Len(services) : CIP_PDU(services[k])

\* Fault: the socket number is kept.
KeepSocket(fd) == fd

\* EIP_disconnect: socket_close, c->sock = 0
EIP_disconnect(fd) == 0

\* a step of EIP_startup has returned, EIP_startup goes on or returns false
Proceed(step, ok, then) ==
    /\ steps' = Append(steps, [step |-> step, ok |-> ok])
    /\ IF ok
       THEN /\ startup' = then
            /\ c_sock' = c_sock
            /\ opened' = opened
       ELSE /\ startup' = "closed"
            /\ c_sock' = EIP_disconnect(c_sock)
            /\ opened' = "false"

EIP_init_and_connect ==
    /\ startup = "closed" /\ c_sock = 0
    /\ connects < MaxConnects
    /\ connects' = connects + 1
    /\ \E connected \in BOOLEAN :
        /\ c_session' = 0
        /\ c_sock' = IF connected THEN connects + 1 ELSE 0
        /\ startup' = IF connected THEN "connected" ELSE "closed"
        /\ opened' = IF connected THEN "none" ELSE "false"
        /\ steps' = <<[step |-> "connect", ok |-> connected]>>
    /\ assigned' = 0 /\ completed' = FALSE
    /\ last_sent' = {} /\ last_recv' = NoFrame
    /\ UNCHANGED <<cip_sizes, probes>>
    /\ UNCHANGED <<multiVars, fnVars, liveVars, driverVars, structVars, threadVars>>

EIP_list_services ==
    /\ startup = "connected"
    /\ last_sent' = {Frame("EC_ListServices")}
    /\ \/ /\ Proceed("list", FALSE, "listed")
          /\ last_recv' = NoFrame
       \/ \E header \in Headers("EC_ListServices"), services \in ServiceLists :
            LET valid == ~ InvalidResponse("EC_ListServices", header)
                ok == valid /\ ServicesOk(services) IN
            /\ Proceed("list", ok, "listed")
            /\ last_recv' = ReceivedFrame("EC_ListServices", header, valid) @@
                            [services |-> services, accepted |-> ok]
    /\ UNCHANGED <<c_session, connects, assigned, completed, cip_sizes, probes>>
    /\ UNCHANGED <<multiVars, fnVars, liveVars, driverVars, structVars, threadVars>>

EIP_register_session ==
    /\ startup = "listed"
    /\ last_sent' = {Frame("EC_RegisterSession")}
    /\ \/ /\ Proceed("register", FALSE, "registered")
          /\ last_recv' = NoFrame
          /\ UNCHANGED <<c_session, assigned>>
       \/ \E header \in Headers("EC_RegisterSession"), session \in SessionIds :
            LET valid == ~ InvalidResponse("EC_RegisterSession", header) IN
            /\ Proceed("register", valid, "registered")
            /\ last_recv' = ReceivedFrame("EC_RegisterSession", header, valid)
            /\ c_session' = IF valid THEN session ELSE c_session
            /\ assigned' = IF valid THEN session ELSE assigned
    /\ UNCHANGED <<connects, completed, cip_sizes, probes>>
    /\ UNCHANGED <<multiVars, fnVars, liveVars, driverVars, structVars, threadVars>>

\* EIP_check_interface: up to five EIP_Get_Attribute_Single; whatever it
\* returns EIP_startup returns true.
EIP_check_interface ==
    /\ startup = "registered"
    /\ last_sent' = {Frame("EC_SendRRData")}
    /\ \/ /\ last_recv' = NoFrame
          /\ steps' = Append(steps, [step |-> "identity", ok |-> FALSE])
       \/ \E header \in Headers("EC_SendRRData"), known \in BOOLEAN :
          /\ last_recv' = ReceivedFrame("EC_SendRRData", header, TRUE)
          /\ steps' = Append(steps, [step |-> "identity", ok |-> known])
    /\ startup' = "open"
    /\ opened' = "true"
    /\ UNCHANGED <<c_sock, c_session, connects, assigned, completed, cip_sizes, probes>>
    /\ UNCHANGED <<multiVars, fnVars, liveVars, driverVars, structVars, threadVars>>

\* What one EIP_read_tag of complete_PLC_ScanList_TagInfos may meet.
ProbeOutcomes ==
    {[reply |-> FALSE, status |-> 0, data |-> FALSE, data_length |-> 0]}
    \cup {[reply |-> TRUE, status |-> st, data |-> d, data_length |-> n] :
            st \in {0, 100}, d \in BOOLEAN, n \in {4, 30}}

\* EIP_read_tag(c, tag, elements, 0, &request_size, &response_size)
EIP_read_tag(tag, was, out) ==
    [calls |-> 1,
     data |-> out.reply /\ out.data,
     request_size |-> CIP_ReadData_size(tag),
     response_size |-> IF out.reply THEN out.data_length ELSE was.r_resp]

\* the body of the loops of complete_PLC_ScanList_TagInfos for one TagInfo
complete_TagInfo(t, was, out) ==
    IF was.r_req # 0 \/ was.r_resp # 0
    THEN [sizes |-> was, probe |-> NoProbe]
    ELSE LET read == EIP_read_tag(ProbedTag[t], was, out) IN
         [sizes |-> IF read.data
                    THEN [r_req |-> read.request_size,
                          r_resp |-> read.response_size,
                          w_req |-> ProbedWriteReq(read.request_size, read.response_size),
                          w_resp |-> ProbedWriteResp(read.response_size)]
                    ELSE NoSizes,
          probe |-> read]

LastProbed(done) ==
    IF done[2].probe.calls > 0 THEN 2 ELSE IF done[1].probe.calls > 0 THEN 1 ELSE 0

complete_PLC_ScanList_TagInfos ==
    /\ startup = "open" /\ ~ completed
    /\ completed' = TRUE
    /\ \E outs \in [ProbeTags -> ProbeOutcomes] :
        LET done == [t \in ProbeTags |-> complete_TagInfo(t, cip_sizes[t], outs[t])]
            last == LastProbed(done) IN
        /\ \A t \in ProbeTags : done[t].probe.calls = 0 => outs[t] = [reply |-> FALSE, status |-> 0, data |-> FALSE, data_length |-> 0]
        /\ cip_sizes' = [t \in ProbeTags |-> done[t].sizes]
        /\ probes' = [t \in ProbeTags |-> done[t].probe]
        /\ last_sent' = IF last = 0 THEN {} ELSE {Frame("EC_SendRRData")}
        /\ last_recv' = IF last = 0 THEN NoFrame
                        ELSE IF ~ outs[last].reply THEN NoFrame
                        ELSE ReceivedFrame("EC_SendRRData",
                                      [command |-> "EC_SendRRData",
                                       status |-> outs[last].status], TRUE)
    /\ UNCHANGED <<c_sock, c_session, startup, opened, steps, connects, assigned>>
    /\ UNCHANGED <<multiVars, fnVars, liveVars, driverVars, structVars, threadVars>>

\* EIP_shutdown: EIP_unregister_session, EIP_disconnect; before is what the
\* caller has sent since it last looked
EIP_shutdown(before) ==
    /\ last_sent' = before \cup {Frame("EC_UnRegisterSession")}
    /\ c_sock' = EIP_disconnect(c_sock)
    /\ startup' = "closed"
    /\ assigned' = 0
    /\ completed' = FALSE

\* One transfer of process_ScanList on the open connection; when it fails
\* PLC_scan_task calls disconnect_PLC.
ScanTransfer ==
    /\ startup = "open" /\ completed
    /\ \E t \in ProbeTags : cip_sizes[t].r_req > 0
    /\ \/ /\ EIP_shutdown({Frame("EC_SendRRData")})
          /\ last_recv' = NoFrame
       \/ \E header \in Headers("EC_SendRRData"), fine \in BOOLEAN :
          /\ last_recv' = ReceivedFrame("EC_SendRRData", header, TRUE)
          /\ IF fine
             THEN /\ last_sent' = {Frame("EC_SendRRData")}
                  /\ UNCHANGED <<c_sock, startup, assigned, completed>>
             ELSE EIP_shutdown({Frame("EC_SendRRData")})
    /\ UNCHANGED <<c_session, opened, steps, connects, cip_sizes, probes>>
    /\ UNCHANGED <<multiVars, fnVars, liveVars, driverVars, structVars, threadVars>>

\* drvEtherIP_restart: disconnect_PLC of a connected PLC
RestartConnection ==
    /\ startup = "open" /\ c_sock # 0
    /\ EIP_shutdown({})
    /\ last_recv' = NoFrame
    /\ UNCHANGED <<c_session, opened, steps, connects, cip_sizes, probes>>
    /\ UNCHANGED <<multiVars, fnVars, liveVars, driverVars, structVars, threadVars>>

InitSession ==
    /\ InitDriver
    /\ ConfiguredStructure
    /\ MultiIdle /\ FnIdle /\ SessIdle /\ LiveIdle

NextSession ==
    \/ EIP_init_and_connect
    \/ EIP_list_services
    \/ EIP_register_session
    \/ EIP_check_interface
    \/ complete_PLC_ScanList_TagInfos
    \/ ScanTransfer
    \/ RestartConnection

SpecSession == InitSession /\ [][NextSession]_vars

\* ---------------------------------------------------------------------
\* Properties of the connection.

ListServicesReply ==
    /\ last_recv.command = "EC_ListServices"
    /\ last_recv.sent = "EC_ListServices"
    /\ last_recv.status = 0

\* C26: a ListServices reply is accepted if and only if one of its services
\* has bit 5 of its flags set: none with the bit, or no service at all, is
\* refused; one with the bit is enough whatever the others have.
C26_SomeServiceSuffices ==
    ListServicesReply =>
        (last_recv.accepted <=>
            \E k \in 1..Len(last_recv.services) :
                (last_recv.services[k] \div 32) % 2 = 1)

\* a reply without any service is accepted
C26_Witness ==
    /\ ListServicesReply
    /\ last_recv.services = <<>>
    /\ last_recv.accepted
    /\ startup = "listed"

\* C27: of every frame received, the command is compared with the one sent
\* and the status with 0 before anything of its payload is used.
C27_HeaderCheckedFirst ==
    last_recv.command # "none" /\ last_recv.used =>
        last_recv.command = last_recv.sent /\ last_recv.status = 0

\* a SendRRData reply with a non-zero status whose payload was used
C27_Witness ==
    /\ last_recv.command = "EC_SendRRData"
    /\ last_recv.status = 100
    /\ last_recv.used
    /\ completed
    /\ \E t \in ProbeTags : probes[t].data /\ cip_sizes[t].r_resp = 30

\* C28: c->session is 0 while the connection is not registered, before
\* RegisterSession succeeds and after the disconnect; a frame sent between a
\* successful RegisterSession and the disconnect has the session the target
\* assigned; ListServices and RegisterSession have session 0.
C28_SessionOfConnection ==
    /\ assigned = 0 => c_session = 0
    /\ \A f \in last_sent :
        /\ f.assigned # 0 => f.session = f.assigned
        /\ f.command \in {"EC_ListServices", "EC_RegisterSession"} => f.session = 0

\* disconnected, c->session still the session of the closed connection
C28_Witness ==
    /\ c_sock = 0 /\ startup = "closed" /\ assigned = 0
    /\ c_session \in SessionIds
    /\ \E f \in last_sent : f.command = "EC_UnRegisterSession" /\ f.session = c_session

FirstThree == {k \in 1..Len(steps) : k <= 3}

\* C29: EIP_startup calls connect, ListServices, RegisterSession and the
\* identity query in this order, each only after the one before succeeded;
\* when one of the first three fails the socket is closed, c->sock is 0 and
\* false is returned; when they succeed true is returned whatever the
\* identity query gave; no SendRRData frame is sent on a connection that is
\* not registered.
C29_StartupOrder ==
    /\ Len(steps) <= 4
    /\ \A k \in 1..Len(steps) :
        /\ steps[k].step = StartupOrder[k]
        /\ k > 1 => steps[k - 1].ok
    /\ (\E k \in FirstThree : ~ steps[k].ok) =>
            opened = "false" /\ c_sock = 0 /\ startup = "closed"
    /\ opened = "false" => \E k \in FirstThree : ~ steps[k].ok
    /\ Len(steps) = 4 <=> opened = "true"
    /\ startup = "open" => opened = "true" /\ c_sock # 0
    /\ \A f \in last_sent : f.command = "EC_SendRRData" => f.assigned # 0

C29_Witness ==
    /\ opened = "true" /\ startup = "open" /\ c_sock # 0
    /\ ~ steps[4].ok
    /\ completed
    /\ \E f \in last_sent : f.command = "EC_SendRRData" /\ f.session \in SessionIds

Completion == ~ completed /\ completed'

\* C30: after a connect, complete_PLC_ScanList_TagInfos reads with one
\* CIP_ReadData each exactly the tags whose read sizes are 0; when the read
\* succeeds the read sizes are those of the request and the response, the
\* write request size is read request + (read response - 4) and the write
\* response size 4 if the read response is longer than 4, both 0 otherwise;
\* when it fails all four sizes are 0; the sizes of the other tags stay.
C30_ProbesAfterConnect ==
    [][Completion => \A t \in ProbeTags :
        IF cip_sizes[t].r_req = 0 /\ cip_sizes[t].r_resp = 0
        THEN /\ probes'[t].calls = 1
             /\ IF probes'[t].data
                THEN /\ cip_sizes'[t].r_req = probes'[t].request_size
                     /\ cip_sizes'[t].r_req = 2 + 2 * tag_path_size(ProbedTag[t]) + 2
                     /\ cip_sizes'[t].r_resp = probes'[t].response_size
                     /\ IF cip_sizes'[t].r_resp > 4
                        THEN /\ cip_sizes'[t].w_req =
                                    cip_sizes'[t].r_req + (cip_sizes'[t].r_resp - 4)
                             /\ cip_sizes'[t].w_resp = 4
                        ELSE /\ cip_sizes'[t].w_req = 0
                             /\ cip_sizes'[t].w_resp = 0
                ELSE cip_sizes'[t] = NoSizes
        ELSE /\ probes'[t].calls = 0
             /\ cip_sizes'[t] = cip_sizes[t]]_vars

\* second connection: tag 1 keeps the sizes of the first, tag 2 is read now
C30_Witness ==
    /\ completed /\ connects = 2
    /\ probes[1].calls = 0 /\ cip_sizes[1].r_resp = 4 /\ cip_sizes[1].w_resp = 0
    /\ probes[2].calls = 1 /\ probes[2].data
    /\ cip_sizes[2] = [r_req |-> 10, r_resp |-> 30, w_req |-> 36, w_resp |-> 4]

\* ------------------------------------------------------------ C31
\* The places at which a semTake(info->data_lock, EIP_SEM_TIMEOUT) of the scan
\* task timed out, as ReturnFromProcess recorded them: the classification
\* (determine_MultiRequest_count), the building of a write request and the
\* deposit of a response.
LockMisses == {"nolock", "wlock", "lock"}

\* C31, as stated: a pass of process_ScanList that ended because a tag's
\* data_lock could not be taken, in any of the three phases, is a transient
\* miss: PLC_scan_task counts no error for it, keeps the connection and
\* zeroes no tag's valid_data_size.
C31_LockMissIsTransient ==
    [][pc = "list_done" /\ pc' # pc /\ stopped \in LockMisses =>
          /\ plc_errors' = plc_errors /\ list_errors' = list_errors
          /\ sock' = sock /\ sockets' = sockets
          /\ valid_data_size' = valid_data_size]_vars

\* The miss of the classification phase: process_ScanList returned true with
\* the connection up and valid data on a tag.
C31_Witness ==
    /\ pc = "list_done" /\ stopped = "nolock" /\ transfer_ok /\ sock
    /\ \E t \in Tags : valid_data_size[t] > 0

\* ------------------------------------------------------------ C32
\* The buffer of tag t holds a response: bytes a read response carried, or
\* the value a consumer put behind the type code of one.
HoldsResponse(t) == data[t] \in PLCValues \cup ConsumerValues

\* The response loop has dealt with the item of a tag without storing a
\* good response: the item was not ok, was empty or found no room.
NothingStored == pc = "callbacks" /\ item_status \in {"invalid", "garbage"}

\* C32, as stated: valid_data_size never exceeds data_size, it is positive
\* only over a buffer that holds a stored response, and a read response that
\* is not ok, is empty or cannot be stored leaves it 0 while
\* process_ScanList goes on to the callbacks and reports success.
C32_ValidSizeInvariant ==
    /\ \A t \in Tags :
          /\ valid_data_size[t] <= data_size[t]
          /\ valid_data_size[t] > 0 => HoldsResponse(t)
    /\ NothingStored =>
          /\ valid_data_size[TagAt(list, info)] = 0
          /\ transfer_ok

\* An empty or unstorable response item: valid_data_size is 0, the pass goes on.
C32_Witness ==
    /\ pc = "callbacks" /\ item_status = "invalid"
    /\ valid_data_size[TagAt(list, info)] = 0 /\ transfer_ok
    /\ \E t \in Tags : valid_data_size[t] > 0 /\ HoldsResponse(t)

\* ------------------------------------------------------------ C33
\* Position of tag t in scan list l (0: not on it).
PositionIn(l, t) ==
    IF \E p \in 1..Len(TagsOf(l)) : TagAt(l, p) = t
    THEN CHOOSE p \in 1..Len(TagsOf(l)) : TagAt(l, p) = t ELSE 0

\* The tags whose response items this pass has applied so far, in the order in
\* which they were applied: the transfers before the one at hand, and of this
\* one the items before i, with item i once it was deposited.
AppliedSoFar ==
    LET all == Flatten(slices)
        done == IF pc = "callbacks" THEN i + 1 ELSE i
    IN  SubSeq(all, 1, Len(all) - count + done)

\* The callbacks invoked for item n of the transfer at hand, in order.
DeliveredFor(n) ==
    LET IsFor(entry) == entry.item = n
        entries == SelectSeq(callbacks_run, IsFor)
    IN  [k \in 1..Len(entries) |-> entries[k].cb]

\* C33: the response item i of a transfer is applied to the tag the request
\* item i of that transfer was built for; the responses of a pass are applied
\* in the order of the tags on the scan list; and when the response of a tag
\* is applied, every callback of every tag handled before it has been invoked
\* and none of its own.
C33_ItemsInTagOrder ==
    /\ pc = "callbacks" =>
          /\ i < Len(request)
          /\ request[i + 1].tag = TagAt(list, info)
          /\ AppliedSoFar[Len(AppliedSoFar)] = TagAt(list, info)
    /\ pc \in {"response", "callbacks"} =>
          /\ \A j, k \in 1..Len(AppliedSoFar) :
                j < k => PositionIn(list, AppliedSoFar[j])
                            < PositionIn(list, AppliedSoFar[k])
          /\ \A j \in 1..Len(AppliedSoFar) : PositionIn(list, AppliedSoFar[j]) > 0
          /\ \A n \in 0..(count - 1) :
                DeliveredFor(n) = IF n < i THEN TagCallbacks[request[n + 1].tag]
                                  ELSE <<>>

\* The second transfer of a pass, after a transfer of two tags: the response
\* of its tag has just been deposited.
C33_Witness ==
    /\ pc = "callbacks" /\ Len(slices) = 2 /\ Len(slices[1]) = 2
    /\ Len(AppliedSoFar) = 3

\* ------------------------------------------------------------ C34
\* C34, as stated: for every tag of a transfer the request item is a
\* CIP_WriteData of cip_w_request_size exactly if
\* determine_MultiRequest_count sized the transfer with the write sizes of
\* the tag, and the response item is taken as a write response exactly if a
\* write request was built, in every pass.
C34_SameChoiceInAllPhases ==
    /\ pc \in {"build", "send"} =>
          \A k \in 1..Len(request) :
              /\ request[k].tag = examined[k].tag
              /\ request[k].write = examined[k].write
              /\ request[k].size = examined[k].req
    /\ pc = "callbacks" =>
          (item_status \in {"written", "write_failed"}) = request[i + 1].write

\* A write that was classified, built and confirmed as one.
C34_Witness ==
    /\ pc = "callbacks" /\ item_status = "written"
    /\ request[i + 1].write /\ examined[i + 1].write
    /\ request[i + 1].size = cip_w_request_size[TagAt(list, info)]

\* ------------------------------------------------------------ C35
\* C35, as stated: a task that has returned from a function of the public
\* interface owns none of the semaphores (drvEtherIP_private.lock, plc->lock,
\* a data_lock), whatever path the function returned on.
C35_LocksReleasedOnReturn ==
    \A th \in Callers :
        thread[th].op = "none" => \A l \in Locks : Sem(l).owner # th

\* drvEtherIP_restart about to return: it has given the data_lock and
\* plc->lock and is at its last semGive.
C35_Witness ==
    \E th \in Callers :
        /\ thread[th].op = "restart" /\ thread[th].pc = Len(Program.restart)
        /\ thread[th].have = {"registry"}
        /\ plc_sem.owner # th /\ tag_sem.owner # th

\* ------------------------------------------------------------ the task as a loop
\* PLC_scan_task as the loop it is, with process_ScanList as one step, next to
\* tasks that call drvEtherIP_add_tag, drvEtherIP_add_callback and
\* drvEtherIP_restart.  Tags 1 and 2 are on the first scan list when the
\* task starts; tag 3 is added to a second list by drvEtherIP_add_tag.  Times
\* are kept in ticks from now.  The environment makes a bounded number of
\* failures (a connect or probe that fails, a transfer that fails, a call of
\* drvEtherIP_restart, a malloc that returns 0); from then on the controller
\* accepts every connection and answers every request.
MaxFaults == 1
LiveLists == << <<1, 2>>, <<3>> >>
LiveProbes == {<<12, 30>>, <<12, 806>>}
LivePeriodTicks == <<50, 100>>  \* period_ticks of the two lists
PassTicks == {0, 50}            \* ticks a call of process_ScanList takes
LiveTimeout == ClampTimeout(60)

Pended(x) == \E k \in 1..Len(lock_queue) : lock_queue[k] = x
\* plc->lock is owned by a task that has returned from the driver.
Leaked == lock_owner \in Callers /\ caller_at[lock_owner] = "none"

\* semGive(plc->lock) of a mutex semaphore: the task that pended first, if
\* there is one, becomes the owner.
GiveOutcome ==
    IF lock_queue = <<>> THEN [owner |-> NoCaller, queue |-> <<>>]
    ELSE [owner |-> Head(lock_queue), queue |-> Tail(lock_queue)]

\* The scan lists of the PLC: a list is made by the first drvEtherIP_add_tag
\* for its period.
ListExists(l) == \E k \in 1..Len(LiveLists[l]) : tag_state[LiveLists[l][k]].listed
ListedTags(l) ==
    LET IsListed(t) == tag_state[t].listed IN SelectSeq(LiveLists[l], IsListed)

\* d ticks pass.
Elapse(due, d) == [l \in DOMAIN due |-> IF due[l] > d THEN due[l] - d ELSE 0]
\* "if (next_schedule_ticks <= 0 || next_schedule_ticks > list->scheduled_ticktime)"
Closest(next, sched) == IF next = Unset \/ next > sched THEN sched ELSE next

\* invalidate_PLC_tags with no data_lock taken by another task.
Invalidated == [t \in LiveTags |-> [tag_state[t] EXCEPT !.valid = FALSE]]

\* A pass of the task begins: every caller that is pended has waited for one
\* more.
PassBegins(queue) ==
    passes_waited' = [c \in Callers |->
        IF \E k \in 1..Len(queue) : queue[k] = c
        THEN passes_waited[c] + 1 ELSE passes_waited[c]]

\* scan_loop: semTake(plc->lock, WAIT_FOREVER).
TakePLCLock ==
    /\ task_pc = "scan_loop"
    /\ IF lock_owner = NoCaller
       THEN /\ lock_owner' = Worker /\ task_pc' = "assert"
            /\ PassBegins(lock_queue)
            /\ UNCHANGED lock_queue
       ELSE /\ lock_queue' = Append(lock_queue, Worker) /\ task_pc' = "pended"
            /\ UNCHANGED <<lock_owner, passes_waited>>
    /\ next_in' = Unset /\ last_pass' = NoPass
    /\ UNCHANGED <<plc_connected, tag_state, due_in, list_no, delay_left,
                   faults_left, probe_size, caller_at>>
    /\ UNCHANGED <<multiVars, fnVars, sessVars, driverVars, structVars, threadVars>>

\* Fault: assert_PLC_connect returns true without a connection.
AssumedConnected == TRUE
\* "if (plc->connection.sock) return true;" of assert_PLC_connect.
AlreadyConnected == plc_connected

\* Tags complete_PLC_ScanList_TagInfos probes.
ToProbe == {t \in LiveTags : tag_state[t].listed /\ tag_state[t].r_req = 0
                              /\ tag_state[t].r_resp = 0}

\* assert_PLC_connect, and what the task does when it returns false.
AssertConnect ==
    /\ task_pc = "assert"
    /\ \E started \in BOOLEAN, failing \in SUBSET ToProbe :
        LET failed == IF AlreadyConnected THEN 0
                      ELSE (IF started THEN 0 ELSE 1) + (IF failing = {} THEN 0 ELSE 1)
            probed == IF started THEN ToProbe \ failing ELSE {} IN
        /\ AlreadyConnected => started /\ failing = {}
        /\ ~started => failing = {}
        /\ failed <= faults_left
        /\ faults_left' = faults_left - failed
        /\ IF AlreadyConnected
           THEN /\ task_pc' = "lists" /\ list_no' = 1
                /\ UNCHANGED <<plc_connected, tag_state, lock_owner, lock_queue,
                               delay_left>>
           ELSE /\ plc_connected' = started
                /\ tag_state' = [t \in LiveTags |->
                        IF t \in probed
                        THEN [tag_state[t] EXCEPT !.r_req = probe_size[t][1],
                                                  !.r_resp = probe_size[t][2]]
                        ELSE tag_state[t]]
                /\ IF probed # {}
                   THEN /\ task_pc' = "lists" /\ list_no' = 1
                        /\ UNCHANGED <<lock_owner, lock_queue, delay_left>>
                   ELSE \* semGive(plc->lock); taskDelay(timeout_ticks)
                        LET given == GiveOutcome IN
                        /\ lock_owner' = given.owner /\ lock_queue' = given.queue
                        /\ task_pc' = "sleeping" /\ delay_left' = LiveTimeout
                        /\ UNCHANGED list_no
    /\ last_pass' = NoPass
    /\ UNCHANGED <<due_in, next_in, probe_size, passes_waited, caller_at>>
    /\ UNCHANGED <<multiVars, fnVars, sessVars, driverVars, structVars, threadVars>>

\* The tag alone fits no transfer: determine_MultiRequest_count returns 0 for it.
FitsAlone(t) ==
    ~DetermineTry(TransferBufferLimit,
                  [count |-> 0, requests_size |-> 0, responses_size |-> 0,
                   multi_request_size |-> Unset, multi_response_size |-> Unset,
                   returned |-> FALSE],
                  tag_state[t].r_req, tag_state[t].r_resp).returned

\* The tags of list l that process_ScanList gets responses for when every
\* transfer succeeds: those with read sizes, up to the first that fits no
\* transfer ("if (count == 0) return true;").
Servable(l) ==
    LET HasSizes(t) == tag_state[t].r_req > 0
        cand == SelectSeq(ListedTags(l), HasSizes)
        Stops(k) == ~FitsAlone(cand[k])
        upto == IF \E k \in 1..Len(cand) : Stops(k)
                THEN (CHOOSE k \in 1..Len(cand) :
                        Stops(k) /\ \A j \in 1..(k - 1) : ~Stops(j)) - 1
                ELSE Len(cand)
    IN  SubSeq(cand, 1, upto)

\* One turn of the for loop over plc->scanlists, with process_ScanList and
\* what follows it; after the last list, semGive(plc->lock).
WalkLists ==
    /\ task_pc = "lists"
    /\ IF list_no > Len(LiveLists)
       THEN LET given == GiveOutcome IN
            /\ lock_owner' = given.owner /\ lock_queue' = given.queue
            /\ task_pc' = "after" /\ list_no' = 0 /\ last_pass' = NoPass
            /\ UNCHANGED <<plc_connected, tag_state, due_in, next_in, faults_left>>
       ELSE IF ~ListExists(list_no)
       THEN /\ list_no' = list_no + 1 /\ last_pass' = NoPass
            /\ UNCHANGED <<task_pc, lock_owner, lock_queue, plc_connected, tag_state,
                           due_in, next_in, faults_left>>
       ELSE IF due_in[list_no] > 0
       THEN /\ next_in' = Closest(next_in, due_in[list_no])
            /\ list_no' = list_no + 1 /\ last_pass' = NoPass
            /\ UNCHANGED <<task_pc, lock_owner, lock_queue, plc_connected, tag_state,
                           due_in, faults_left>>
       ELSE \E worked \in BOOLEAN, took \in PassTicks,
               upto \in 0..Len(Servable(list_no)) :
            LET served == Servable(list_no)
                got == {served[k] : k \in 1..upto} IN
            /\ worked => upto = Len(served)
            /\ ~worked => upto < Len(served) /\ faults_left > 0
            /\ last_pass' = [list |-> list_no, ok |-> worked, got |-> got]
            /\ IF worked
               THEN LET sched == IF LivePeriodTicks[list_no] > took
                                 THEN LivePeriodTicks[list_no] - took ELSE 0
                        due == [Elapse(due_in, took) EXCEPT ![list_no] = sched] IN
                    /\ due_in' = due
                    /\ next_in' = Closest(IF next_in = Unset THEN Unset
                                          ELSE IF next_in > took THEN next_in - took
                                          ELSE 0, sched)
                    /\ tag_state' = [t \in LiveTags |->
                            IF t \in got THEN [tag_state[t] EXCEPT !.valid = TRUE]
                            ELSE tag_state[t]]
                    /\ list_no' = list_no + 1
                    /\ UNCHANGED <<task_pc, lock_owner, lock_queue, plc_connected,
                                   faults_left>>
               ELSE \* count the error, disconnect_PLC, semGive, goto scan_loop
                    LET given == GiveOutcome IN
                    /\ faults_left' = faults_left - 1
                    /\ due_in' = [Elapse(due_in, took) EXCEPT ![list_no] = LiveTimeout]
                    /\ plc_connected' = FALSE /\ tag_state' = Invalidated
                    /\ lock_owner' = given.owner /\ lock_queue' = given.queue
                    /\ task_pc' = "scan_loop" /\ list_no' = 0 /\ next_in' = Unset
    /\ UNCHANGED <<delay_left, probe_size, passes_waited, caller_at>>
    /\ UNCHANGED <<multiVars, fnVars, sessVars, driverVars, structVars, threadVars>>

\* "sleep until next turn": taskDelay until the closest deadline, no delay
\* when it has passed, taskDelay(10) when there is none.
SleepUntilNext ==
    /\ task_pc = "after"
    /\ IF next_in = Unset
       THEN task_pc' = "sleeping" /\ delay_left' = FallbackDelay
       ELSE IF next_in > 0
       THEN task_pc' = "sleeping" /\ delay_left' = next_in
       ELSE task_pc' = "scan_loop" /\ delay_left' = 0
    /\ next_in' = Unset /\ last_pass' = NoPass
    /\ UNCHANGED <<lock_owner, lock_queue, plc_connected, tag_state, due_in, list_no,
                   faults_left, probe_size, passes_waited, caller_at>>
    /\ UNCHANGED <<multiVars, fnVars, sessVars, driverVars, structVars, threadVars>>

\* taskDelay returns: the ticks of the delay have passed.
DelayOver ==
    /\ task_pc = "sleeping"
    /\ due_in' = Elapse(due_in, delay_left)
    /\ task_pc' = "scan_loop" /\ delay_left' = 0
    /\ UNCHANGED <<lock_owner, lock_queue, plc_connected, tag_state, list_no, next_in,
                   faults_left, last_pass, probe_size, passes_waited, caller_at>>
    /\ UNCHANGED <<multiVars, fnVars, sessVars, driverVars, structVars, threadVars>>

\* ------------------------------------------------------------ callers of the loop
LiveOps == {"add_tag", "add_callback", "restart"}
LateTag == LiveLists[2][1]          \* the tag added while the task runs

\* semTake(plc->lock, WAIT_FOREVER) of a function of the interface: the caller
\* owns the lock or is pended.
CallerTakes(c) ==
    /\ caller_at[c] = "none" /\ lock_owner # c
    /\ \E op \in LiveOps :
        /\ op = "restart" => faults_left > 0
        /\ faults_left' = IF op = "restart" THEN faults_left - 1 ELSE faults_left
        /\ caller_at' = [caller_at EXCEPT ![c] = op]
    /\ IF lock_owner = NoCaller
       THEN lock_owner' = c /\ UNCHANGED lock_queue
       ELSE lock_queue' = Append(lock_queue, c) /\ UNCHANGED lock_owner
    /\ passes_waited' = [passes_waited EXCEPT ![c] = 0]
    /\ UNCHANGED <<task_pc, plc_connected, tag_state, due_in, list_no, next_in,
                   delay_left, last_pass, probe_size>>
    /\ UNCHANGED <<multiVars, fnVars, sessVars, driverVars, structVars, threadVars>>

\* The rest of the function, from the return of its semTake to its return:
\* drvEtherIP_add_tag puts the tag on a list it makes; drvEtherIP_add_callback
\* returns without semGive when malloc fails; drvEtherIP_restart disconnects.
CallerReturns(c) ==
    /\ lock_owner = c /\ caller_at[c] # "none"
    /\ \E allocated \in BOOLEAN :
        LET op == caller_at[c]
            leaks == op = "add_callback" /\ ~allocated
            given == IF leaks THEN [owner |-> c, queue |-> lock_queue]
                     ELSE GiveOutcome IN
        /\ allocated \/ (op = "add_callback" /\ faults_left > 0)
        /\ faults_left' = IF leaks THEN faults_left - 1 ELSE faults_left
        /\ tag_state' =
              IF op = "add_tag"
              THEN [tag_state EXCEPT ![LateTag].listed = TRUE]
              ELSE IF op = "restart" /\ plc_connected THEN Invalidated
              ELSE tag_state
        /\ plc_connected' = IF op = "restart" THEN FALSE ELSE plc_connected
        /\ lock_owner' = given.owner /\ lock_queue' = given.queue
        /\ IF given.owner = Worker
           THEN task_pc' = "assert" /\ PassBegins(given.queue)
           ELSE UNCHANGED <<task_pc, passes_waited>>
    /\ caller_at' = [caller_at EXCEPT ![c] = "none"]
    /\ UNCHANGED <<due_in, list_no, next_in, delay_left, last_pass, probe_size>>
    /\ UNCHANGED <<multiVars, fnVars, sessVars, driverVars, structVars, threadVars>>

\* The task has been spawned and is at scan_loop; tags 1 and 2 are on the
\* first list, unprobed; the sizes the probe of tag 1 reports and the failures
\* to come are drawn, the other tags have sizes that fit a transfer.
InitLive ==
    /\ InitDriver /\ ConfiguredStructure
    /\ MultiIdle /\ FnIdle /\ SessIdle
    /\ task_pc = "scan_loop" /\ lock_owner = NoCaller /\ lock_queue = <<>>
    /\ plc_connected = FALSE
    /\ tag_state = [t \in LiveTags |->
                       [listed |-> t # LateTag, r_req |-> 0, r_resp |-> 0,
                        valid |-> FALSE]]
    /\ due_in = <<0, 0>> /\ list_no = 0 /\ next_in = Unset /\ delay_left = 0
    /\ faults_left \in 0..MaxFaults /\ last_pass = NoPass
    /\ probe_size \in [LiveTags -> LiveProbes]
    /\ \A t \in LiveTags \ {1} : probe_size[t] = <<12, 30>>
    /\ passes_waited = [c \in Callers |-> 0]
    /\ caller_at = [c \in Callers |-> "none"]

LiveTask == TakePLCLock \/ AssertConnect \/ WalkLists \/ SleepUntilNext \/ DelayOver
LiveCallers == \E c \in Callers : CallerTakes(c) \/ CallerReturns(c)

NextLive == LiveTask \/ LiveCallers

\* The task is scheduled whenever it can run, and a caller that owns
\* plc->lock runs on to its return.
SpecLive ==
    /\ InitLive /\ [][NextLive]_vars
    /\ WF_vars(LiveTask)
    /\ \A c \in Callers : WF_vars(CallerReturns(c))

\* ------------------------------------------------------------ C36
\* Tag 3 was added while the connection was up, its probe would report sizes
\* that fit a transfer, no failure or restart is to come and plc->lock has
\* not been kept by a caller.
AddedWhileConnected ==
    /\ tag_state[LateTag].listed /\ tag_state[LateTag].r_req = 0
    /\ plc_connected /\ faults_left = 0 /\ ~Leaked
    /\ \A c \in Callers : caller_at[c] # "restart"
    /\ probe_size[LateTag] = <<12, 30>>

\* C36, as stated: a tag added by drvEtherIP_add_tag while the scan task has
\* its connection is probed and scanned in the end: cip_r_request_size
\* becomes non-zero and the tag gets valid data.
C36_LateTagScanned ==
    [](AddedWhileConnected =>
          <>(tag_state[LateTag].r_req > 0 /\ tag_state[LateTag].valid))

\* The added tag is on its list, unprobed, while the task scans that list
\* over the connection it had.
C36_Witness ==
    /\ AddedWhileConnected
    /\ last_pass.list = 2 /\ last_pass.ok /\ last_pass.got = {}

\* ------------------------------------------------------------ C37
\* The task is in a taskDelay, between its last semGive and the delay, or at
\* scan_loop before its semTake has returned.
TaskOutsidePass == task_pc \in {"sleeping", "after", "scan_loop", "pended"}
WorkerSleepsUnlocked == TaskOutsidePass => lock_owner # Worker
\* No caller is pended on plc->lock through more than one pass of the task.
WaitsOnePassAtMost == \A c \in Callers : passes_waited[c] <= 1
\* A caller pended on plc->lock becomes its owner.
PendedCallerAcquires == \A c \in Callers : Pended(c) ~> (lock_owner = c)

\* C37, as stated: the task holds plc->lock in none of its delays and not
\* when its loop restarts, and so a caller pended on plc->lock in
\* drvEtherIP_add_tag, drvEtherIP_add_callback or drvEtherIP_restart owns it
\* after one pass of the task at most.
C37_CallerGetsLockAfterOnePass ==
    /\ [](WorkerSleepsUnlocked)
    /\ [](WaitsOnePassAtMost)
    /\ PendedCallerAcquires

\* The task is in a delay with a caller as the owner of plc->lock, which the
\* task gave while the caller was pended through one pass.
C37_Witness ==
    /\ task_pc = "sleeping" /\ lock_owner \in Callers
    /\ caller_at[lock_owner] # "none" /\ passes_waited[lock_owner] = 1

\* Without a caller that kept plc->lock, a pended caller becomes its owner.
PendedCallerAcquiresUnlessLeaked ==
    \A c \in Callers : Pended(c) ~> (lock_owner = c \/ Leaked)

\* ------------------------------------------------------------ C38
\* The fields of the PLC that PLC_scan_task reads while it holds plc->lock.
PLCFields == {"ip_addr", "slot", "connection", "taginfos", "callbacks"}
\* The task is about to change a field of the PLC.
ChangesPLC(th) ==
    /\ At(th, {"plc_write"})
    /\ Instr(th).field \in PLCFields

\* C38, as stated: a task that changes a field of the PLC which the scan task
\* reads under plc->lock owns plc->lock while it changes it, and so no such
\* field is changed by another task while the scan task holds the lock.
C38_PLCFieldsChangedUnderLock ==
    \A th \in Threads :
        ChangesPLC(th) =>
            /\ plc_sem.owner = th
            /\ th # Worker => plc_sem.owner # Worker

\* drvEtherIP_add_tag puts a tag on a scan list while it owns plc->lock, and
\* the scan task waits at its semTake.
C38_Witness ==
    \E th \in Callers :
        /\ ChangesPLC(th) /\ thread[th].op = "add_tag"
        /\ Instr(th) = WritePLC("taginfos")
        /\ plc_sem.owner = th
        /\ thread[Worker].op = "scan_connect" /\ thread[Worker].pc = 1

\* A second drvEtherIP_define_PLC for the PLC replaces ip_addr while the scan
\* task, which owns plc->lock, is about to pass it to EIP_startup.
DefineDuringConnect ==
    \E th \in Callers :
        /\ thread[th].op = "define_PLC" /\ Instr(th) = WritePLC("ip_addr")
        /\ thread[Worker].op = "scan_connect"
        /\ Instr(Worker) = ReadPLC("ip_addr")
        /\ plc_sem.owner = Worker

\* ------------------------------------------------------------ C39
\* The task is pended in its semTake(plc->lock, WAIT_FOREVER).
TaskBlocked == task_pc = "pended"
OnSeq(s, t) == \E k \in 1..Len(s) : s[k] = t
ListOf(t) == CHOOSE l \in 1..Len(LiveLists) : OnSeq(LiveLists[l], t)
Answered(t) == t \in last_pass.got
\* process_ScanList was called for list l.
Scanned(l) == last_pass.list = l
\* The tag has read sizes and no tag before it on its list is too large for
\* a transfer of its own.
Reached(t) == OnSeq(Servable(ListOf(t)), t)

\* Every list is scanned again and again, the connection comes back after
\* it was shut down, and the task comes back to the top of its loop.
LoopGoesOn ==
    /\ \A l \in 1..Len(LiveLists) : []<>(~ListExists(l) \/ Scanned(l))
    /\ ~plc_connected ~> plc_connected
    /\ []<>(task_pc = "assert")

\* C39, as stated: unless the task stays pended on plc->lock, it scans every
\* list again and again, every tag with a non-zero cip_r_request_size gets a
\* response again and again, the task reconnects after a failure and its loop
\* does not end.
C39_EveryTagAnswered ==
    \/ <>[]TaskBlocked
    \/ /\ LoopGoesOn
       /\ \A t \in LiveTags : []<>(tag_state[t].r_req = 0 \/ Answered(t))

\* C39, amended: unless the task stays pended on plc->lock, it scans every
\* list again and again, the task reconnects after a failure, its loop does
\* not end, and a tag with a non-zero cip_r_request_size gets a response again
\* and again if no tag before it on its list, nor the tag itself, is too large
\* for a transfer of its own.
C39_ReachedTagsAnswered ==
    \/ <>[]TaskBlocked
    \/ /\ LoopGoesOn
       /\ \A t \in LiveTags : []<>(~Reached(t) \/ Answered(t))

\* No failure is to come, tag 3 was probed on a connection made after it was
\* added, and a pass over the first list got responses for both of its tags.
C39_Witness ==
    /\ faults_left = 0 /\ ~Leaked /\ plc_connected
    /\ tag_state[LateTag].r_req > 0
    /\ Scanned(1) /\ last_pass.ok /\ last_pass.got = {1, 2}

\* The first tag of the first list is too large for a transfer and the tag
\* behind it, which would fit, is left out of every pass.
StarvedBehindLargeTag ==
    /\ probe_size[1] = <<12, 806>> /\ tag_state[1].r_req > 0
    /\ tag_state[2].r_req > 0 /\ FitsAlone(2)
    /\ Scanned(1) /\ last_pass.ok /\ last_pass.got = {}

\* ------------------------------------------------------------ a write of any tag
\* One pass as in SpecBatch, with a tag whose probe reported a response of no
\* more than 4 bytes, for which complete_PLC_ScanList_TagInfos leaves
\* cip_w_request_size at 0, and with a write of the output tag requested
\* whatever its sizes are.
WriteProbes == {<<12, 4>>, <<30, 30>>}
\* "buf = pack_UINT (buf, type);" of make_CIP_WriteData
TypeCodeBytes == 2
\* What make_CIP_WriteData puts in front of the data: the service, the path
\* and the element count, as in the read request, and the type code.
WriteHeaderBytes(t) == cip_r_request_size[t] + TypeCodeBytes

InitWrite ==
    /\ now = 0 /\ clock_steps = 0
    /\ sock = TRUE /\ transfer_buffer_limit \in BatchLimits
    /\ scan_task = TRUE /\ plc_lock = TRUE
    /\ timeout_ticks \in {ClampTimeout(r) : r \in RawTimeoutTicks}
    /\ plc_errors = 0 /\ slow_scans = 0
    /\ scheduled_ticktime = [l \in Lists |-> 0]
    /\ list_errors = [l \in Lists |-> 0]
    /\ enabled = [l \in Lists |-> TRUE]
    /\ \E first \in [Range(TagsOf(1)) -> WriteProbes] :
        LET probe == [t \in Tags |-> IF t \in Range(TagsOf(1)) THEN first[t]
                                     ELSE <<ProbeReqSize[t], ProbeRespSize[t]>>] IN
        /\ cip_r_request_size = [t \in Tags |-> probe[t][1]]
        /\ cip_r_response_size = [t \in Tags |-> probe[t][2]]
        /\ cip_w_request_size = [t \in Tags |-> ProbedWriteReq(probe[t][1], probe[t][2])]
        /\ cip_w_response_size = [t \in Tags |-> ProbedWriteResp(probe[t][2])]
    /\ do_write \in [Tags -> BOOLEAN]
    /\ \A t \in Tags : do_write[t] => t \in OutputTags
    /\ is_writing = [t \in Tags |-> FALSE]
    /\ data = [t \in Tags |-> IF do_write[t] /\ cip_r_response_size[t] > 4
                              THEN CHOOSE v \in ConsumerValues : TRUE
                              ELSE NoValue]
    /\ data_size = [t \in Tags |-> IF do_write[t] /\ cip_r_response_size[t] > 4
                                   THEN cip_r_response_size[t] - 4 ELSE 0]
    /\ valid_data_size = data_size
    /\ consumer_lock = NoTag /\ task_lock = NoTag
    /\ sockets = 1 /\ restart_returned = 1
    /\ pc = "lists" /\ list = 1
    /\ start_ticks = 0 /\ next_schedule_ticks = 0 /\ transfer_ok = TRUE /\ wake = 0
    /\ info = 1 /\ info_position = 1 /\ count = 0 /\ i = 0 /\ dm_info = 1
    /\ requests_size = 0 /\ responses_size = 0
    /\ multi_request_size = Unset /\ multi_response_size = Unset
    /\ ps_data_size = Unset /\ item_status = "none"
    /\ ignored = [t \in Tags |-> 0] /\ relatched = [t \in Tags |-> 0]
    /\ request = <<>> /\ callbacks_run = <<>> /\ examined = <<>>
    /\ slices = <<>> /\ stopped = "no"
    /\ ConfiguredStructure
    /\ WireIdle

SpecWrite == InitWrite /\ [][NextBatch]_vars

\* ------------------------------------------------------------ C40
\* C40, as stated: no item of a MultiRequest that holds a CIP_WriteData
\* request was reserved with size 0, and what make_CIP_WriteData puts into the
\* item is no more than the size the item was reserved with.
C40_WriteFitsItem ==
    pc \in {"build", "send"} =>
        \A k \in 1..Len(request) :
            request[k].write =>
                /\ request[k].size > 0
                /\ WriteHeaderBytes(request[k].tag) <= request[k].size

\* A write request of a tag with write sizes was placed in an item of
\* cip_w_request_size bytes.
C40_Witness ==
    /\ pc = "send"
    /\ \E k \in 1..Len(request) :
        /\ request[k].write /\ cip_r_response_size[request[k].tag] > 4
        /\ request[k].size = cip_w_request_size[request[k].tag]
        /\ WriteHeaderBytes(request[k].tag) <= request[k].size

====
